---------------------------- MODULE Spec2Model ----------------------------
(***************************************************************************)
(* State-machine model of the arena shooter's simulation core:             *)
(*   Game       (src/unnamed/part_001)  match flags, counters, update()     *)
(*   AiManager  (src/ai.js)             opponents, AI projectiles, battles  *)
(*   AiOpponent (src/ai.js)             decision state machine, damage     *)
(*   Player     (src/player.js)         health, medkit, projectiles        *)
(*   Weapon / Projectile (src/unnamed/part_002)                            *)
(*   Controls   (src/ai.js)             mouse handlers, auto-fire interval *)
(*                                                                         *)
(* JavaScript runs one handler at a time.  Game.update is modelled as a    *)
(* run of steps sequenced by pc (agent loop, projectile pass, battles,     *)
(* collisions); no other handler is enabled while pc # "idle", so the run  *)
(* is atomic with respect to every other handler, as in the program.       *)
(*                                                                         *)
(* Geometry is continuous in the program.  The outcome of each geometric   *)
(* test of a frame (distance < hitDistance, distance < detectionRange,     *)
(* world collision) and of each Math.random() / performance.now()          *)
(* comparison is an input of the step, drawn with \E.  Timers that the     *)
(* code only compares with 0 are kept by sign.  Projectile lifetimes are   *)
(* exact, in ticks of 1/TicksPerSecond seconds.                            *)
(***************************************************************************)
EXTENDS Integers, Sequences, FiniteSets, TLC

(***************************************************************************)
(* Bounds of the model.  The program's population is 200 and its battle    *)
(* floor is 20; both are scaled down together so that the floor is crossed *)
(* inside a match.                                                         *)
(***************************************************************************)
Population == 3

MinPlayersForBattles == 3

MaxDt == 5

MaxPlayerProjectiles == 2

MaxAiProjectiles == 1

MaxRounds == 14

MaxReloadTimers == 1

(***************************************************************************)
(* Program constants.                                                      *)
(***************************************************************************)
TicksPerSecond == 12

AiHealth == 100

AiDamage == 10

AiProjectileRange == 30

AiProjectileSpeed == 40

PlayerMaxHealth == 100

MedkitHeal == 50

InitialMedkits == 2

InitialGrenades == 3

GrenadeDamage == 100

(* Grenade: seconds until the explosion. *)
GrenadeLifetime == 3

RifleIndex == 1

NoTarget == 0

PlayerRef == -1

AttackRange == 30

DetectionRange == 40

NumAgents == Population - 1

(* A frame lasts one or two times MaxDt ticks. *)
DtValues == {MaxDt, 2 * MaxDt}

WeaponIndices == 0..2

(* Pistol, Rifle, Sniper constructors. *)
WeaponDamage(w) == CASE w = 0 -> 20 [] w = 1 -> 15 [] OTHER -> 80

WeaponRange(w) == CASE w = 0 -> 50 [] w = 1 -> 100 [] OTHER -> 200

WeaponSpeed(w) == CASE w = 0 -> 100 [] w = 1 -> 120 [] OTHER -> 200

WeaponMagSize(w) == CASE w = 0 -> 15 [] w = 1 -> 30 [] OTHER -> 5

WeaponAutomatic(w) == w = 1

(* Variant of the lifetime that ignores the speed. *)
ProjectileLifetimeRangeOnly(range, speed) == range * TicksPerSecond

(* Projectile constructor: lifetime = range / speed, here in ticks. *)
ProjectileLifetime(range, speed) == (range * TicksPerSecond) \div speed

NewProjectile(damage, range, speed) ==
    [damage |-> damage, range |-> range, speed |-> speed,
     lifetime |-> ProjectileLifetime(range, speed), distance |-> 0]

VARIABLES
    gameActive, gameOver, paused, playerDead,          \* Game flags
    playersAlive, playerEliminations, shotsHit, shotsFired,
    pHealth, pAlive, medkits, medkitCooldown,          \* Player
    grenades, grenadeCooldown, switchWeaponCooldown,
    pProjectiles,                                      \* Player.projectiles
    weapons, currentWeaponIndex, reloadTimers,         \* Weapon state, pending setTimeout
    isMouseDown, isLocked, autoShoot,                  \* Controls
    opponents, aiProjectiles,                          \* AiManager
    pc, idx, dt,                                       \* position inside Game.update
    lastOp, events, wonCount, worldHits,               \* observation of the last step
    expired,                                           \* expiries in the current frame
    visited,                                           \* the frame's pass of checkCollisions
    probe                                              \* last call of a World function

gameVars == <<gameActive, gameOver, paused, playerDead,
              playersAlive, playerEliminations, shotsHit, shotsFired>>

playerVars == <<pHealth, pAlive, medkits, medkitCooldown, grenades,
                grenadeCooldown, switchWeaponCooldown, pProjectiles>>

weaponVars == <<weapons, currentWeaponIndex, reloadTimers>>

ctlVars == <<isMouseDown, isLocked, autoShoot>>

aiVars == <<opponents, aiProjectiles>>

frameVars == <<pc, idx, dt>>

obsVars == <<lastOp, events, wonCount, worldHits, expired, visited, probe>>

vars == <<gameVars, playerVars, weaponVars, ctlVars, aiVars, frameVars, obsVars>>

(* The simulation state: everything but the observation variables. *)
simVars == <<gameVars, playerVars, weaponVars, aiVars>>

----------------------------------------------------------------------------
(* Helpers *)

Splice(s, i) == [k \in 1..(Len(s) - 1) |-> IF k < i THEN s[k] ELSE s[k + 1]]

Min(a, b) == IF a < b THEN a ELSE b

Max(a, b) == IF a > b THEN a ELSE b

(* Variant of the alive filter that keeps the eliminated opponents. *)
AliveInWithDead(opps) == DOMAIN opps

AliveIn(opps) == {a \in DOMAIN opps : opps[a].isAlive}

AliveAgents == AliveIn(opponents)

(* Variant of Running that does not read the pause flag. *)
RunningIgnoringPause == gameActive /\ ~gameOver

(* Game.update's guard; the match phase is Active exactly when it holds. *)
Running == gameActive /\ ~paused /\ ~gameOver

Phase ==
    IF ~gameActive THEN "Idle"
    ELSE IF gameOver THEN "Over"
    ELSE IF paused THEN "Paused"
    ELSE "Active"

(* AiOpponent constructor. *)
NewOpponent ==
    [isAlive |-> TRUE, health |-> AiHealth, state |-> "patrolling",
     targetEntity |-> NoTarget, isShooting |-> FALSE]

(* Weapon.resetAmmo *)
ResetAmmo(wp, w) ==
    [wp EXCEPT !.currentMag = WeaponMagSize(w),
               !.reserveAmmo = WeaponMagSize(w) * 3,
               !.isReloading = FALSE]

(* Pistol / Rifle / Sniper constructors: reserve ammo is 3 magazines each. *)
NewWeapon(w) ==
    [currentMag |-> WeaponMagSize(w), reserveAmmo |-> WeaponMagSize(w) * 3,
     isReloading |-> FALSE, isEquipped |-> FALSE]

RoundsUsedOf(w) ==
    WeaponMagSize(w) * 4 - (weapons[w].currentMag + weapons[w].reserveAmmo)

(* Rounds fired since the last reset, over the three weapons. *)
RoundsUsed == RoundsUsedOf(0) + RoundsUsedOf(1) + RoundsUsedOf(2)

----------------------------------------------------------------------------
(* No pass of checkCollisions over the player's projectiles in this frame:
   count is the length of the collection when the pass began, indices the
   places, in that collection, of the projectiles the callback was given. *)
NoPass == [count |-> 0, indices |-> <<>>]

(* State after `new Game()`, the world aside. *)
InitGame ==
    /\ gameActive = FALSE /\ gameOver = FALSE /\ paused = FALSE
    /\ playerDead = FALSE
    /\ playersAlive = Population /\ playerEliminations = 0
    /\ shotsHit = 0 /\ shotsFired = 0
    /\ pHealth = PlayerMaxHealth /\ pAlive = TRUE
    /\ medkits = InitialMedkits /\ medkitCooldown = FALSE
    /\ grenades = InitialGrenades /\ grenadeCooldown = FALSE
    /\ switchWeaponCooldown = FALSE
    /\ pProjectiles = <<>>
    /\ weapons = [w \in WeaponIndices |->
                    [NewWeapon(w) EXCEPT !.isEquipped = (w = RifleIndex)]]
    /\ currentWeaponIndex = RifleIndex
    /\ reloadTimers = [w \in WeaponIndices |-> 0]
    /\ isMouseDown = FALSE /\ isLocked = FALSE /\ autoShoot = FALSE
    /\ opponents = <<>>
    /\ aiProjectiles = <<>>
    /\ pc = "idle" /\ idx = 0 /\ dt = MaxDt
    /\ lastOp = "init" /\ events = <<>> /\ wonCount = 0
    /\ worldHits = [player |-> {}, ai |-> {}]
    /\ expired = [player |-> {}, ai |-> {}]
    /\ visited = NoPass

(* No call of a World function has been observed. *)
NoCall == [op |-> "none"]

(* State after `new Game()`. *)
Init == InitGame /\ probe = NoCall

----------------------------------------------------------------------------
(* Entities: damage and death *)

(* Variant of AiDie that leaves the health where the damage put it. *)
AiDieKeepHealth(o) == [o EXCEPT !.isAlive = FALSE]

(* AiOpponent.die *)
AiDie(o) == [o EXCEPT !.isAlive = FALSE, !.health = 0]

(* AiOpponent.takeDamage; the caller reads `killed` as the return value. *)
AiTakeDamage(o, amount) ==
    LET hit == [o EXCEPT !.health = @ - amount]
    IN  IF hit.health <= 0 THEN AiDie(hit) ELSE hit

AiKilledBy(o, amount) == o.health - amount <= 0

(* Player.takeDamage with Player.die; armor is 0 and never set. *)
PlayerTakeDamage(p, amount) ==
    IF ~p.isAlive THEN p
    ELSE LET h == Max(0, p.health - amount)
         IN  IF h <= 0 THEN [isAlive |-> FALSE, health |-> 0]
             ELSE [p EXCEPT !.health = h]

----------------------------------------------------------------------------
(* Game: match lifecycle *)

(* Player.reset: cooldowns and the weapons' isEquipped flags are not reset. *)
PlayerReset ==
    /\ pHealth' = PlayerMaxHealth
    /\ pAlive' = TRUE
    /\ weapons' = [w \in WeaponIndices |->
                     [ResetAmmo(weapons[w], w)
                        EXCEPT !.isEquipped = (@ \/ w = RifleIndex)]]
    /\ currentWeaponIndex' = RifleIndex
    /\ grenades' = InitialGrenades
    /\ medkits' = InitialMedkits
    /\ pProjectiles' = <<>>
    /\ UNCHANGED <<medkitCooldown, grenadeCooldown, switchWeaponCooldown>>

(* Variant of InitializeOpponents whose clearOpponents keeps the AI
   projectiles in flight. *)
InitializeOpponentsKeepProjectiles(count) ==
    /\ opponents' = [a \in 1..count |-> NewOpponent]
    /\ aiProjectiles' = aiProjectiles

(* AiManager.initializeOpponents: clearOpponents, then createOpponent x count *)
InitializeOpponents(count) ==
    /\ opponents' = [a \in 1..count |-> NewOpponent]
    /\ aiProjectiles' = <<>>

(* Game.startGame (the start button) and Game.restartGame (the restart button) *)
StartGame ==
    /\ pc = "idle"
    /\ gameActive' = TRUE
    /\ gameOver' = FALSE
    /\ paused' = FALSE
    /\ isLocked' = TRUE
    /\ PlayerReset
    /\ InitializeOpponents(NumAgents)
    /\ playersAlive' = Population
    /\ playerEliminations' = 0
    /\ shotsHit' = 0
    /\ shotsFired' = 0
    /\ lastOp' = "startGame" /\ events' = <<>> /\ wonCount' = 0
    /\ worldHits' = [player |-> {}, ai |-> {}]
    /\ expired' = [player |-> {}, ai |-> {}]
    /\ visited' = NoPass
    /\ UNCHANGED probe
    /\ UNCHANGED <<playerDead, reloadTimers, isMouseDown, autoShoot, frameVars>>

(* keydown Escape -> Game.togglePause *)
TogglePause ==
    /\ pc = "idle"
    /\ gameActive /\ ~gameOver
    /\ paused' = ~paused
    /\ isLocked' = paused
    /\ lastOp' = "togglePause" /\ events' = <<>>
    /\ UNCHANGED <<gameActive, gameOver, playerDead, playersAlive,
                   playerEliminations, shotsHit, shotsFired,
                   playerVars, weaponVars, isMouseDown, autoShoot, aiVars,
                   frameVars, wonCount, worldHits, expired, visited, probe>>

----------------------------------------------------------------------------
(* Weapon and Player actions *)

(* Variant of Weapon.reload's tests without the test of the reserve. *)
ReloadStartsAnyReserve(wp, w) ==
    /\ ~wp.isReloading
    /\ wp.currentMag # WeaponMagSize(w)

(* Weapon.reload's tests: whether the reload starts and a timeout is
   scheduled. *)
ReloadStarts(wp, w) ==
    /\ ~wp.isReloading
    /\ wp.currentMag # WeaponMagSize(w)
    /\ wp.reserveAmmo > 0

(* Variant of Weapon.completeReload that leaves the reserve as it is. *)
CompleteReloadKeepsReserve(wp, w) ==
    LET ammoNeeded == WeaponMagSize(w) - wp.currentMag
        ammoToAdd == Min(ammoNeeded, wp.reserveAmmo)
    IN  [wp EXCEPT !.currentMag = @ + ammoToAdd,
                   !.isReloading = FALSE]

(* Weapon.completeReload *)
CompleteReload(wp, w) ==
    LET ammoNeeded == WeaponMagSize(w) - wp.currentMag
        ammoToAdd == Min(ammoNeeded, wp.reserveAmmo)
    IN  [wp EXCEPT !.currentMag = @ + ammoToAdd,
                   !.reserveAmmo = @ - ammoToAdd,
                   !.isReloading = FALSE]

(* Weapon.shoot's outcome: "none", "reload" (empty magazine) or "fire";
   gateOpen is the fire-rate test on performance.now(). *)
ShootOutcome(wp, gateOpen) ==
    IF ~wp.isEquipped \/ wp.isReloading \/ ~gateOpen THEN "none"
    ELSE IF wp.currentMag <= 0 THEN "reload"
    ELSE "fire"

(* Player.shoot -> Weapon.shoot -> Weapon.reload / createProjectile *)
PlayerShoot(gateOpen) ==
    LET w == currentWeaponIndex
        wp == weapons[w]
        out == IF pAlive THEN ShootOutcome(wp, gateOpen) ELSE "none"
    IN  /\ out = "fire" =>
              /\ Len(pProjectiles) < MaxPlayerProjectiles
              /\ RoundsUsed < MaxRounds
        /\ out = "reload" /\ ReloadStarts(wp, w) =>
              reloadTimers[w] < MaxReloadTimers
        /\ weapons' =
             CASE out = "fire" -> [weapons EXCEPT ![w].currentMag = @ - 1]
               [] out = "reload" /\ ReloadStarts(wp, w) ->
                     [weapons EXCEPT ![w].isReloading = TRUE]
               [] OTHER -> weapons
        /\ reloadTimers' =
             IF out = "reload" /\ ReloadStarts(wp, w)
             THEN [reloadTimers EXCEPT ![w] = @ + 1] ELSE reloadTimers
        /\ pProjectiles' =
             IF out = "fire"
             THEN Append(pProjectiles,
                         NewProjectile(WeaponDamage(w), WeaponRange(w),
                                       WeaponSpeed(w)))
             ELSE pProjectiles
        /\ UNCHANGED <<currentWeaponIndex, pHealth, pAlive, medkits,
                       medkitCooldown, grenades, grenadeCooldown,
                       switchWeaponCooldown>>

(* A call of Player.shoot, as the mousedown handler and the auto-fire
   interval make it, with the outcome of the fire-rate test observed. *)
ShootCall ==
    /\ pc = "idle"
    /\ Running
    /\ \E gateOpen \in BOOLEAN :
         /\ PlayerShoot(gateOpen)
         /\ probe' = [op |-> "shoot", gateOpen |-> gateOpen]
    /\ lastOp' = "shoot" /\ events' = <<>>
    /\ UNCHANGED <<gameVars, ctlVars, aiVars, frameVars, wonCount, worldHits,
                   expired, visited>>

(* Controls: mousedown, left button *)
MouseDown ==
    /\ pc = "idle"
    /\ isLocked /\ ~isMouseDown
    /\ isMouseDown' = TRUE
    /\ IF Running
       THEN /\ \E gateOpen \in BOOLEAN : PlayerShoot(gateOpen)
            /\ autoShoot' = TRUE
       ELSE UNCHANGED <<playerVars, weaponVars, autoShoot>>
    /\ lastOp' = "mouseDown" /\ events' = <<>>
    /\ UNCHANGED <<gameVars, isLocked, aiVars, frameVars, wonCount, worldHits, expired, visited, probe>>

(* Controls: mouseup, left button *)
MouseUp ==
    /\ pc = "idle"
    /\ isMouseDown
    /\ isMouseDown' = FALSE
    /\ autoShoot' = FALSE
    /\ lastOp' = "mouseUp" /\ events' = <<>>
    /\ UNCHANGED <<gameVars, playerVars, weaponVars, isLocked, aiVars,
                   frameVars, wonCount, worldHits, expired, visited, probe>>

(* The setInterval callback installed by mousedown *)
AutoShootTick ==
    /\ pc = "idle"
    /\ autoShoot
    /\ IF isMouseDown /\ WeaponAutomatic(currentWeaponIndex)
       THEN \E gateOpen \in BOOLEAN : PlayerShoot(gateOpen)
       ELSE UNCHANGED <<playerVars, weaponVars>>
    /\ lastOp' = "autoShootTick" /\ events' = <<>>
    /\ UNCHANGED <<gameVars, ctlVars, aiVars, frameVars, wonCount, worldHits, expired, visited, probe>>

(* keydown KeyR -> currentWeapon.reload() *)
KeyReload ==
    /\ pc = "idle"
    /\ Running
    /\ LET w == currentWeaponIndex
       IN  IF ReloadStarts(weapons[w], w)
           THEN /\ reloadTimers[w] < MaxReloadTimers
                /\ weapons' = [weapons EXCEPT ![w].isReloading = TRUE]
                /\ reloadTimers' = [reloadTimers EXCEPT ![w] = @ + 1]
           ELSE UNCHANGED <<weapons, reloadTimers>>
    /\ lastOp' = "keyReload" /\ events' = <<>>
    /\ UNCHANGED <<gameVars, playerVars, currentWeaponIndex, ctlVars, aiVars,
                   frameVars, wonCount, worldHits, expired, visited, probe>>

(* The setTimeout callback scheduled by Weapon.reload *)
ReloadTimeout ==
    /\ pc = "idle"
    /\ \E w \in WeaponIndices :
         /\ reloadTimers[w] > 0
         /\ reloadTimers' = [reloadTimers EXCEPT ![w] = @ - 1]
         /\ weapons' = [weapons EXCEPT ![w] = CompleteReload(@, w)]
    /\ lastOp' = "reloadTimeout" /\ events' = <<>>
    /\ UNCHANGED <<gameVars, playerVars, currentWeaponIndex, ctlVars, aiVars,
                   frameVars, wonCount, worldHits, expired, visited, probe>>

(* Variant of Player.switchWeapon that ignores the cooldown. *)
SwitchWeaponResultNoCooldown(index) ==
    LET unequipped ==
          [weapons EXCEPT ![currentWeaponIndex].isEquipped = FALSE]
    IN  IF index \in WeaponIndices
        THEN [weapons |-> [unequipped EXCEPT ![index].isEquipped = TRUE],
              currentWeaponIndex |-> index,
              switchWeaponCooldown |-> TRUE,
              threw |-> FALSE]
        ELSE [weapons |-> unequipped,
              currentWeaponIndex |-> index,
              switchWeaponCooldown |-> switchWeaponCooldown,
              threw |-> TRUE]

(* Player.switchWeapon(index), for any number index: the fields it leaves
   behind and whether it threw.  With an index outside the weapons array
   this.currentWeapon becomes undefined and this.currentWeapon.equip()
   throws a TypeError before the cooldown is set. *)
SwitchWeaponResult(index) ==
    LET unequipped ==
          [weapons EXCEPT ![currentWeaponIndex].isEquipped = FALSE]
    IN  IF switchWeaponCooldown
        THEN [weapons |-> weapons,
              currentWeaponIndex |-> currentWeaponIndex,
              switchWeaponCooldown |-> switchWeaponCooldown,
              threw |-> FALSE]
        ELSE IF index \in WeaponIndices
        THEN [weapons |-> [unequipped EXCEPT ![index].isEquipped = TRUE],
              currentWeaponIndex |-> index,
              switchWeaponCooldown |-> TRUE,
              threw |-> FALSE]
        ELSE [weapons |-> unequipped,
              currentWeaponIndex |-> index,
              switchWeaponCooldown |-> switchWeaponCooldown,
              threw |-> TRUE]

(* keydown Digit1 / Digit2 / Digit3 -> Player.switchWeapon(index) *)
SwitchWeapon ==
    /\ pc = "idle"
    /\ Running
    /\ \E index \in WeaponIndices :
         LET r == SwitchWeaponResult(index)
         IN  /\ weapons' = r.weapons
             /\ currentWeaponIndex' = r.currentWeaponIndex
             /\ switchWeaponCooldown' = r.switchWeaponCooldown
    /\ lastOp' = "switchWeapon" /\ events' = <<>>
    /\ UNCHANGED <<gameVars, pHealth, pAlive, medkits, medkitCooldown,
                   grenades, grenadeCooldown,
                   pProjectiles, reloadTimers, ctlVars, aiVars, frameVars,
                   wonCount, worldHits, expired, visited, probe>>

(* The indices a caller of Player.switchWeapon may pass. *)
AnyIndices == -1..3

(* A call of Player.switchWeapon(index) with any index, observed on the
   values it would leave; the handlers of the program pass 0, 1 or 2. *)
SwitchWeaponCall ==
    /\ pc = "idle"
    /\ Running
    /\ \E index \in AnyIndices :
         probe' = [op |-> "switchWeapon", index |-> index,
                   result |-> SwitchWeaponResult(index)]
    /\ lastOp' = "switchWeaponCall" /\ events' = <<>>
    /\ UNCHANGED <<gameVars, playerVars, weaponVars, ctlVars, aiVars, frameVars,
                   wonCount, worldHits, expired, visited>>

(* Grenade constructor, as an element of Player.projectiles: a grenade has
   damage and lifetime; of Projectile's range, speed and distance it has
   none, and their values here leave only the lifetime to count. *)
NewGrenade ==
    [damage |-> GrenadeDamage, range |-> 0, speed |-> 0,
     lifetime |-> GrenadeLifetime * TicksPerSecond, distance |-> 0]

(* keydown KeyG -> Player.throwGrenade *)
ThrowGrenade ==
    /\ pc = "idle"
    /\ Running
    /\ IF grenadeCooldown \/ grenades <= 0
       THEN UNCHANGED <<grenades, grenadeCooldown, pProjectiles>>
       ELSE /\ Len(pProjectiles) < MaxPlayerProjectiles
            /\ pProjectiles' = Append(pProjectiles, NewGrenade)
            /\ grenades' = grenades - 1
            /\ grenadeCooldown' = TRUE
    /\ lastOp' = "throwGrenade" /\ events' = <<>>
    /\ UNCHANGED <<gameVars, pHealth, pAlive, medkits, medkitCooldown,
                   switchWeaponCooldown, weaponVars, ctlVars, aiVars,
                   frameVars, wonCount, worldHits, expired, visited, probe>>

(* Player.useMedkit's effect on health *)
MedkitHealth(h) == Min(PlayerMaxHealth, h + MedkitHeal)

(* keydown KeyH -> Player.useMedkit *)
UseMedkit ==
    /\ pc = "idle"
    /\ Running
    /\ IF medkitCooldown \/ medkits <= 0 \/ pHealth >= PlayerMaxHealth
       THEN UNCHANGED <<pHealth, medkits, medkitCooldown>>
       ELSE /\ pHealth' = MedkitHealth(pHealth)
            /\ medkits' = medkits - 1
            /\ medkitCooldown' = TRUE
    /\ lastOp' = "useMedkit" /\ events' = <<>>
    /\ UNCHANGED <<gameVars, pAlive, grenades, grenadeCooldown,
                   switchWeaponCooldown, pProjectiles,
                   weaponVars, ctlVars, aiVars, frameVars, wonCount, worldHits, expired, visited, probe>>

----------------------------------------------------------------------------
(* Projectiles *)

(* Variant of Projectile.update that does not age the projectile. *)
ProjectileUpdateFrozen(p, d) == p

(* Projectile.update: the projectile travels speed * dt and its lifetime
   drops by the frame's dt. *)
ProjectileUpdate(p, d) ==
    [p EXCEPT !.distance = @ + p.speed * d, !.lifetime = @ - d]

(* Player.updateProjectiles / AiManager.updateProjectiles: the reverse loop
   from index i down; coll holds the indices for which
   world.checkProjectileCollision answers true. *)
RECURSIVE UpdateProjectilesFrom(_, _, _, _)
UpdateProjectilesFrom(projs, i, coll, d) ==
    IF i = 0 THEN projs
    ELSE LET moved == [projs EXCEPT ![i] = ProjectileUpdate(@, d)]
         IN  IF i \in coll
             THEN UpdateProjectilesFrom(Splice(moved, i), i - 1, coll, d)
             ELSE IF moved[i].lifetime <= 0
             THEN UpdateProjectilesFrom(Splice(moved, i), i - 1, coll, d)
             ELSE UpdateProjectilesFrom(moved, i - 1, coll, d)

UpdateProjectiles(projs, coll, d) ==
    UpdateProjectilesFrom(projs, Len(projs), coll, d)

(* The indices the loop removes in its second test, lifetime <= 0. *)
ExpiredIn(projs, coll, d) ==
    {i \in DOMAIN projs : i \notin coll /\ ProjectileUpdate(projs[i], d).lifetime <= 0}

----------------------------------------------------------------------------
(* Game.update, first part: the guard and Player.update *)

UpdateBegin ==
    /\ pc = "idle"
    /\ lastOp' = "update" /\ events' = <<>>
    /\ IF ~Running
       THEN /\ worldHits' = [player |-> {}, ai |-> {}]
            /\ expired' = [player |-> {}, ai |-> {}]
            /\ visited' = NoPass
            /\ UNCHANGED <<playerVars, frameVars>>
       ELSE \E d \in DtValues :
              /\ dt' = d
              /\ idx' = Len(opponents)
              /\ pc' = IF Len(opponents) = 0 THEN "aiProjectiles" ELSE "agents"
              /\ IF ~pAlive
                 THEN /\ worldHits' = [player |-> {}, ai |-> {}]
                      /\ expired' = [player |-> {}, ai |-> {}]
                      /\ visited' = NoPass
                      /\ UNCHANGED playerVars
                 ELSE /\ \E cool \in BOOLEAN :
                           medkitCooldown' = (medkitCooldown /\ ~cool)
                      /\ \E cool \in BOOLEAN :
                           grenadeCooldown' = (grenadeCooldown /\ ~cool)
                      /\ \E cool \in BOOLEAN :
                           switchWeaponCooldown' = (switchWeaponCooldown /\ ~cool)
                      /\ \E coll \in SUBSET (1..Len(pProjectiles)) :
                           /\ pProjectiles' = UpdateProjectiles(pProjectiles, coll, d)
                           /\ worldHits' = [player |-> coll, ai |-> {}]
                           /\ expired' =
                                [player |-> ExpiredIn(pProjectiles, coll, d),
                                 ai |-> {}]
                           /\ visited' = NoPass
                      /\ UNCHANGED <<pHealth, pAlive, medkits, grenades>>
    /\ UNCHANGED <<gameVars, weaponVars, ctlVars, aiVars, wonCount, probe>>

----------------------------------------------------------------------------
(* AiOpponent.update: decision, then behaviour.  The inputs of one agent's
   update are the outcomes of its distance tests and timer comparisons:
     playerRange   "attack" (distance < attackRange), "detect" (distance <
                   detectionRange) or "far"
     nearest       the nearest alive opponent inside detectionRange, or NoTarget
     nearestRange  "attack" or "detect", for that opponent
     rnd           Math.random() < 0.3
     patrolElapsed patrolTimer <= 0
     tgtDist       horizontal distance to targetEntity against attackRange:
                   "lt", "eq" or "gt"
     cooled        attackCooldown <= 0                                      *)

PlayerRanges == {"attack", "detect", "far"}

Decide(o, in) ==
    IF in.playerRange # "far"
    THEN [o EXCEPT !.state = IF in.playerRange = "attack"
                             THEN "attacking" ELSE "chasing",
                   !.targetEntity = PlayerRef]
    ELSE IF in.nearest # NoTarget /\ in.rnd
    THEN [o EXCEPT !.state = IF in.nearestRange = "attack"
                             THEN "attacking" ELSE "chasing",
                   !.targetEntity = in.nearest]
    ELSE IF in.patrolElapsed
    THEN [o EXCEPT !.state = "patrolling"]
    ELSE o

(* AiOpponent.chase *)
Chase(o, in) ==
    IF o.targetEntity = NoTarget THEN [o EXCEPT !.state = "patrolling"]
    ELSE IF in.tgtDist = "lt" THEN [o EXCEPT !.state = "attacking"]
    ELSE o

(* AiOpponent.attack *)
Attack(o, in) ==
    IF o.targetEntity = NoTarget THEN [o EXCEPT !.state = "patrolling"]
    ELSE IF in.tgtDist = "gt" THEN [o EXCEPT !.state = "chasing"]
    ELSE [o EXCEPT !.isShooting = in.cooled]

(* AiOpponent.update; patrol() only moves the agent. *)
AiUpdate(o, in) ==
    LET d == Decide(o, in)
    IN  CASE d.state = "chasing" -> Chase(d, in)
          [] d.state = "attacking" -> Attack(d, in)
          [] OTHER -> d

(* AiOpponent.canSeeTarget: no line-of-sight test, only the distance. *)
CanSeeTarget(distance) == ~(distance > DetectionRange)

(* AiOpponent.update: the test of the player's distance, as the word the
   decision reads. *)
PlayerRangeOf(distance) ==
    IF CanSeeTarget(distance) /\ distance < DetectionRange
    THEN IF distance < AttackRange THEN "attack" ELSE "detect"
    ELSE "far"

(* AiOpponent.update: the forEach that finds the nearest alive opponent
   closer than detectionRange; dist[i] is the distance to opponent i.  Of
   several at the least distance the first stays. *)
NearestOpponent(self, opps, dist) ==
    LET c == {i \in DOMAIN opps :
                i # self /\ opps[i].isAlive /\ dist[i] < DetectionRange}
    IN  IF c = {} THEN NoTarget
        ELSE CHOOSE i \in c :
               \A j \in c : dist[i] < dist[j] \/ (dist[i] = dist[j] /\ i <= j)

(* chase / attack: the horizontal distance to the target against
   attackRange. *)
CompareToAttackRange(distance) ==
    IF distance < AttackRange THEN "lt"
    ELSE IF distance > AttackRange THEN "gt" ELSE "eq"

(* The inputs of one update of agent self, from the distances measured in
   it: playerDistance to the player, dist[i] to opponent i, tgtHorizontal
   the horizontal distance to the target the decision leaves. *)
Perceive(self, opps, playerDistance, dist, rnd, patrolElapsed, tgtHorizontal, cooled) ==
    LET nearest == NearestOpponent(self, opps, dist)
    IN  [playerRange |-> PlayerRangeOf(playerDistance),
         nearest |-> nearest,
         nearestRange |-> IF nearest # NoTarget /\ dist[nearest] < AttackRange
                          THEN "attack" ELSE "detect",
         rnd |-> rnd,
         patrolElapsed |-> patrolElapsed,
         tgtDist |-> CompareToAttackRange(tgtHorizontal),
         cooled |-> cooled]

(* The inputs that can occur for agent a in the current state: a target
   that was just found closer than attackRange is horizontally closer too.
   Inputs that the taken branch does not read are fixed. *)
AgentInputs(a, ranges, engage) ==
    {in \in [playerRange : ranges,
             nearest : {NoTarget} \cup
                       (IF engage THEN AliveAgents \ {a} ELSE {}),
             nearestRange : {"attack", "detect"},
             rnd : BOOLEAN,
             patrolElapsed : BOOLEAN,
             tgtDist : {"lt", "eq", "gt"},
             cooled : BOOLEAN] :
       /\ in.playerRange = "attack" => in.tgtDist = "lt"
       /\ (in.playerRange = "far" /\ in.nearest # NoTarget /\ in.rnd
             /\ in.nearestRange = "attack") => in.tgtDist = "lt"
       /\ in.nearest = NoTarget => (in.nearestRange = "detect" /\ ~in.rnd)
       /\ in.playerRange # "far" => (in.nearest = NoTarget /\ ~in.patrolElapsed)
       /\ (in.nearest # NoTarget /\ in.rnd) => ~in.patrolElapsed}

(* AiManager.update, one iteration of the opponents loop (index idx):
   AiOpponent.update, then AiOpponent.shoot when isShooting; fireGate is
   shoot()'s fire-rate test on performance.now(). *)
AgentStep(ranges, engage) ==
    /\ pc = "agents"
    /\ idx >= 1
    /\ IF ~opponents[idx].isAlive
       THEN UNCHANGED aiVars
       ELSE \E in \in AgentInputs(idx, ranges, engage), fireGate \in BOOLEAN :
              LET o == AiUpdate(opponents[idx], in)
                  fires == o.isShooting /\ fireGate
              IN  /\ fires => Len(aiProjectiles) < MaxAiProjectiles
                  /\ opponents' = [opponents EXCEPT ![idx] = o]
                  /\ aiProjectiles' =
                       IF fires
                       THEN Append(aiProjectiles,
                                   NewProjectile(AiDamage, AiProjectileRange,
                                                 AiProjectileSpeed))
                       ELSE aiProjectiles
    /\ idx' = idx - 1
    /\ pc' = IF idx = 1 THEN "aiProjectiles" ELSE "agents"
    /\ UNCHANGED <<gameVars, playerVars, weaponVars, ctlVars, dt, obsVars>>

(* AiManager.updateProjectiles *)
AiProjectilesStep ==
    /\ pc = "aiProjectiles"
    /\ \E coll \in SUBSET (1..Len(aiProjectiles)) :
         /\ aiProjectiles' = UpdateProjectiles(aiProjectiles, coll, dt)
         /\ worldHits' = [worldHits EXCEPT !.ai = coll]
         /\ expired' = [expired EXCEPT
                          !.ai = ExpiredIn(aiProjectiles, coll, dt)]
    /\ pc' = "battles"
    /\ UNCHANGED <<gameVars, playerVars, weaponVars, ctlVars, opponents,
                   idx, dt, lastOp, events, wonCount, visited, probe>>

----------------------------------------------------------------------------
(* Variant of the attrition effect in which the attacker falls with the
   victim. *)
BattleOutcomeBothFall(opps, attacker, victim) ==
    [opps EXCEPT ![victim].isAlive = FALSE, ![attacker].isAlive = FALSE]

(* Variant of the attrition effect that leaves the victim alive. *)
BattleOutcomeSparesVictim(opps, attacker, victim) == opps

(* AiManager.simulateOpponentBattles: what an elimination does to the
   opponents. *)
BattleOutcome(opps, attacker, victim) ==
    [opps EXCEPT ![victim].isAlive = FALSE]

(* AiManager.simulateOpponentBattles and Game.aiEliminatedAI; roll is
   Math.random() < playersAlive / 1000. *)
BattlesStep ==
    /\ pc = "battles"
    /\ \E roll \in BOOLEAN :
         IF playersAlive >= MinPlayersForBattles /\ roll
            /\ Cardinality(AliveAgents) >= 2
         THEN \E attacker \in AliveAgents, victim \in AliveAgents :
                /\ victim # attacker
                /\ opponents' = BattleOutcome(opponents, attacker, victim)
                /\ playersAlive' = playersAlive - 1
                /\ events' = Append(events, "AgentEliminatedAgent")
         ELSE UNCHANGED <<opponents, playersAlive, events>>
    /\ pc' = "collisions"
    /\ UNCHANGED <<gameActive, gameOver, paused, playerDead, playerEliminations,
                   shotsHit, shotsFired, playerVars, weaponVars, ctlVars,
                   aiProjectiles, idx, dt, lastOp, wonCount, worldHits, expired, visited, probe>>

----------------------------------------------------------------------------
(* Game.checkCollisions, first loop.  The director's state threaded through
   the loop is a record m of
     opps, projs, playersAlive, playerEliminations, shotsHit, gameOver,
     events, wonCount                                                       *)

(* Game.playerWon *)
PlayerWon(m) ==
    [m EXCEPT !.events = Append(@, "PlayerWon"),
              !.gameOver = TRUE,
              !.wonCount = @ + 1]

(* Variant of Game.playerEliminatedAI that declares the win one opponent
   early. *)
PlayerEliminatedAIEarly(m) ==
    LET n == [m EXCEPT !.playerEliminations = @ + 1,
                       !.playersAlive = @ - 1,
                       !.events = Append(@, "PlayerEliminatedAgent")]
    IN  IF n.playersAlive <= 2 THEN PlayerWon(n) ELSE n

(* Variant of Game.playerEliminatedAI that counts the eliminated opponent
   twice. *)
PlayerEliminatedAIDouble(m) ==
    LET n == [m EXCEPT !.playerEliminations = @ + 1,
                       !.playersAlive = @ - 2,
                       !.events = Append(@, "PlayerEliminatedAgent")]
    IN  IF n.playersAlive = 1 THEN PlayerWon(n) ELSE n

(* Variant of Game.playerEliminatedAI that posts nothing to the kill feed. *)
PlayerEliminatedAISilent(m) ==
    LET n == [m EXCEPT !.playerEliminations = @ + 1,
                       !.playersAlive = @ - 1]
    IN  IF n.playersAlive = 1 THEN PlayerWon(n) ELSE n

(* Game.playerEliminatedAI *)
PlayerEliminatedAI(m) ==
    LET n == [m EXCEPT !.playerEliminations = @ + 1,
                       !.playersAlive = @ - 1,
                       !.events = Append(@, "PlayerEliminatedAgent")]
    IN  IF n.playersAlive = 1 THEN PlayerWon(n) ELSE n

(* Variant of the hit candidates without the test of isAlive. *)
HitCandidatesWithDead(opps, near) == {i \in DOMAIN opps : i \in near}

(* AiManager.checkProjectileHit: the opponents the loop can stop at, i.e.
   alive and closer than hitDistance to the projectile (near). *)
HitCandidates(opps, near) == {i \in DOMAIN opps : opps[i].isAlive /\ i \in near}

(* The first of them in index order, or NoTarget. *)
HitIndex(opps, near) ==
    LET c == HitCandidates(opps, near)
    IN  IF c = {} THEN NoTarget ELSE CHOOSE i \in c : \A j \in c : i <= j

(* AiManager.checkProjectileHit's effect when it stops at opponent t *)
ApplyProjectileHit(m, t, damage) ==
    LET killed == AiKilledBy(m.opps[t], damage)
        n == [m EXCEPT !.opps[t] = AiTakeDamage(@, damage)]
    IN  IF killed THEN PlayerEliminatedAI(n) ELSE n

(* The forEach over player.projectiles: k is forEach's index, removed the
   number of splices so far, near[j] the opponents within hitDistance of
   the projectile that was at index j when the loop began. *)
RECURSIVE CheckCollisionsFrom(_, _, _, _)
CheckCollisionsFrom(m, k, removed, near) ==
    IF k > Len(m.projs) THEN m
    ELSE LET t == HitIndex(m.opps, near[k + removed])
             v == [m EXCEPT !.visited = Append(@, k + removed)]
         IN  IF t = NoTarget
             THEN CheckCollisionsFrom(v, k + 1, removed, near)
             ELSE LET h == ApplyProjectileHit(v, t, v.projs[k].damage)
                      n == [h EXCEPT !.projs = Splice(@, k),
                                     !.shotsHit = @ + 1]
                  IN  CheckCollisionsFrom(n, k + 1, removed + 1, near)

CollisionsStep ==
    /\ pc = "collisions"
    /\ \E near \in [1..Len(pProjectiles) -> SUBSET (DOMAIN opponents)] :
         LET m0 == [opps |-> opponents, projs |-> pProjectiles,
                    playersAlive |-> playersAlive,
                    playerEliminations |-> playerEliminations,
                    shotsHit |-> shotsHit, gameOver |-> gameOver,
                    events |-> events, wonCount |-> wonCount,
                    visited |-> <<>>]
             m == CheckCollisionsFrom(m0, 1, 0, near)
         IN  /\ opponents' = m.opps
             /\ pProjectiles' = m.projs
             /\ playersAlive' = m.playersAlive
             /\ playerEliminations' = m.playerEliminations
             /\ shotsHit' = m.shotsHit
             /\ gameOver' = m.gameOver
             /\ events' = m.events
             /\ wonCount' = m.wonCount
             /\ isLocked' = (isLocked /\ ~m.gameOver)
             /\ visited' = [count |-> Len(pProjectiles),
                            indices |-> m.visited]
    /\ pc' = "hitPlayer"
    /\ UNCHANGED <<gameActive, paused, playerDead, shotsFired,
                   pHealth, pAlive, medkits, medkitCooldown,
                   grenades, grenadeCooldown,
                   switchWeaponCooldown, weaponVars,
                   isMouseDown, autoShoot, aiProjectiles, idx, dt, lastOp,
                   worldHits, expired, probe>>

----------------------------------------------------------------------------
(* Game.checkCollisions, second part: AiManager.checkProjectileHitPlayer.
   The state threaded through the loop is a record m of
     projs, player, playerDead, gameOver, events                            *)

(* Game.playerEliminated *)
PlayerEliminated(m) ==
    IF m.playerDead THEN m
    ELSE [m EXCEPT !.playerDead = TRUE,
                   !.events = Append(@, "PlayerEliminated"),
                   !.gameOver = TRUE]

(* The reverse loop from index i down; hits holds the indices of the
   projectiles closer than hitDistance to the player. *)
RECURSIVE HitPlayerFrom(_, _, _)
HitPlayerFrom(m, i, hits) ==
    IF i = 0 THEN m
    ELSE IF i \notin hits THEN HitPlayerFrom(m, i - 1, hits)
    ELSE LET n == [m EXCEPT !.player = PlayerTakeDamage(@, m.projs[i].damage),
                            !.projs = Splice(@, i)]
         IN  HitPlayerFrom(IF n.player.health <= 0 THEN PlayerEliminated(n) ELSE n,
                           i - 1, hits)

HitPlayerStep ==
    /\ pc = "hitPlayer"
    /\ \E hits \in SUBSET (1..Len(aiProjectiles)) :
         LET m0 == [projs |-> aiProjectiles,
                    player |-> [isAlive |-> pAlive, health |-> pHealth],
                    playerDead |-> playerDead, gameOver |-> gameOver,
                    events |-> events]
             m == HitPlayerFrom(m0, Len(aiProjectiles), hits)
         IN  /\ aiProjectiles' = m.projs
             /\ pHealth' = m.player.health
             /\ pAlive' = m.player.isAlive
             /\ playerDead' = m.playerDead
             /\ gameOver' = m.gameOver
             /\ events' = m.events
             /\ isLocked' = (isLocked /\ ~m.gameOver)
    /\ pc' = "idle"
    /\ expired' = [player |-> {}, ai |-> {}]
    /\ visited' = NoPass
    /\ UNCHANGED <<gameActive, paused, playersAlive, playerEliminations,
                   shotsHit, shotsFired, medkits, medkitCooldown,
                   grenades, grenadeCooldown,
                   switchWeaponCooldown, pProjectiles,
                   weaponVars, isMouseDown, autoShoot, opponents, idx, dt,
                   lastOp, wonCount, worldHits, probe>>

----------------------------------------------------------------------------
(* Damage applied directly: what one projectile does to the entity it hits
   in Game.checkCollisions, with the equipped weapon's damage. *)

(* AiManager.checkProjectileHit on an alive opponent within hitDistance *)
DamageAgent ==
    /\ pc = "idle"
    /\ Running
    /\ \E t \in AliveAgents :
         LET w == currentWeaponIndex
             m0 == [opps |-> opponents, projs |-> <<>>,
                    playersAlive |-> playersAlive,
                    playerEliminations |-> playerEliminations,
                    shotsHit |-> shotsHit, gameOver |-> gameOver,
                    events |-> <<>>, wonCount |-> wonCount]
             m == ApplyProjectileHit(m0, t, WeaponDamage(w))
         IN  /\ opponents' = m.opps
             /\ playersAlive' = m.playersAlive
             /\ playerEliminations' = m.playerEliminations
             /\ gameOver' = m.gameOver
             /\ events' = m.events
             /\ wonCount' = m.wonCount
             /\ isLocked' = (isLocked /\ ~m.gameOver)
    /\ lastOp' = "damageAgent"
    /\ UNCHANGED <<gameActive, paused, playerDead, shotsHit, shotsFired,
                   playerVars, weaponVars, isMouseDown, autoShoot,
                   aiProjectiles, frameVars, worldHits, expired, visited, probe>>

(* AiManager.checkProjectileHitPlayer for one AI projectile in hitDistance *)
DamagePlayer ==
    /\ pc = "idle"
    /\ Running
    /\ LET m0 == [projs |-> <<NewProjectile(AiDamage, AiProjectileRange,
                                            AiProjectileSpeed)>>,
                  player |-> [isAlive |-> pAlive, health |-> pHealth],
                  playerDead |-> playerDead, gameOver |-> gameOver,
                  events |-> <<>>]
           m == HitPlayerFrom(m0, 1, {1})
       IN  /\ pHealth' = m.player.health
           /\ pAlive' = m.player.isAlive
           /\ playerDead' = m.playerDead
           /\ gameOver' = m.gameOver
           /\ events' = m.events
           /\ isLocked' = (isLocked /\ ~m.gameOver)
    /\ lastOp' = "damagePlayer"
    /\ UNCHANGED <<gameActive, paused, playersAlive, playerEliminations,
                   shotsHit, shotsFired, medkits, medkitCooldown,
                   grenades, grenadeCooldown,
                   switchWeaponCooldown, pProjectiles, weaponVars,
                   isMouseDown, autoShoot, aiVars, frameVars, wonCount,
                   worldHits, expired, visited, probe>>

----------------------------------------------------------------------------
(* World.  Lengths are whole numbers of a grid unit; box extents and
   collider heights are even, so that every half extent is whole.  Where
   the program compares  |p - c| - (extent / 2 + radius)  with 0, the model
   compares twice that value. *)

MaxCoord == 3

MaxObstacles == 2

MaxRadius == 1

EyeHeight == 1

Abs(n) == IF n < 0 THEN -n ELSE n

Vec(x, y, z) == [x |-> x, y |-> y, z |-> z]

Coords == -1..MaxCoord

(* Positions of an entity's centre, at or above the ground. *)
Positions ==
    {Vec(x, y, z) : x \in Coords, y \in EyeHeight..MaxCoord, z \in Coords}

Radii == 0..MaxRadius

(* createObstacles: boxes standing on the ground, position.y = height / 2. *)
Boxes ==
    {[type |-> "box", position |-> Vec(x, h \div 2, z),
      width |-> 2, height |-> h, depth |-> 2] :
       x \in {0, 2}, z \in {0, 2}, h \in {2, 4}}

ObstacleLists == UNION {[1..n -> Boxes] : n \in 0..MaxObstacles}

(* Variant of the box test that enlarges the box by the radius on Y too. *)
InsideBoxAllAxes(o, position, radius) ==
    /\ 2 * Abs(position.x - o.position.x) - (o.width + 2 * radius) < 0
    /\ 2 * Abs(position.y - o.position.y) - (o.height + 2 * radius) < 0
    /\ 2 * Abs(position.z - o.position.z) - (o.depth + 2 * radius) < 0

(* World.isPositionValid, the test of one obstacle: dx < 0 && dy < 0 && dz < 0 *)
InsideBox(o, position, radius) ==
    LET dx == 2 * Abs(position.x - o.position.x) - (o.width + 2 * radius)
        dy == 2 * Abs(position.y - o.position.y) - o.height
        dz == 2 * Abs(position.z - o.position.z) - (o.depth + 2 * radius)
    IN  dx < 0 /\ dy < 0 /\ dz < 0

(* World.isPositionValid: the loop over this.obstacles from index k. *)
RECURSIVE IsPositionValidFrom(_, _, _, _)
IsPositionValidFrom(obs, k, position, radius) ==
    IF k > Len(obs) THEN TRUE
    ELSE IF obs[k].type = "box" /\ InsideBox(obs[k], position, radius)
    THEN FALSE
    ELSE IsPositionValidFrom(obs, k + 1, position, radius)

IsPositionValid(obs, position, radius) ==
    IsPositionValidFrom(obs, 1, position, radius)

(* A world has been built and none of its functions called yet. *)
WorldReady == probe.op = "new"

(* `new World()`: createObstacles draws the boxes. *)
InitWorld ==
    /\ InitGame
    /\ probe \in {[op |-> "new", obstacles |-> obs] : obs \in ObstacleLists}

(* A call of World.isPositionValid *)
IsPositionValidCall ==
    /\ WorldReady
    /\ \E position \in Positions, radius \in Radii :
         probe' = [op |-> "isPositionValid", obstacles |-> probe.obstacles,
                   position |-> position, radius |-> radius,
                   result |-> IsPositionValid(probe.obstacles, position, radius)]
    /\ UNCHANGED <<gameVars, playerVars, weaponVars, ctlVars, aiVars, frameVars,
                   lastOp, events, wonCount, worldHits, expired, visited>>

(* Desired displacements of one step, per axis. *)
Movements == {Vec(x, y, z) : x \in -1..1, y \in -1..1, z \in -1..1}

(* Collider heights: twice the eye height. *)
ColliderHeight == 2 * EyeHeight

(* World.checkCollision: the result before any test. *)
NoCollision(movement) ==
    [movement |-> movement,
     blocked |-> [x |-> FALSE, y |-> FALSE, z |-> FALSE],
     onGround |-> FALSE]

(* Variant of the ground test that stops the entity's centre, not its
   feet, at the ground. *)
CheckGroundAtCentre(result, position, movement, height) ==
    IF 2 * (position.y + movement.y) < 0
    THEN [result EXCEPT !.movement.y = 0 - position.y,
                        !.blocked.y = TRUE,
                        !.onGround = TRUE]
    ELSE result

(* World.checkCollision: the ground test. *)
CheckGround(result, position, movement, height) ==
    IF 2 * (position.y + movement.y) - height < 0
    THEN [result EXCEPT !.movement.y = (height \div 2) - position.y,
                        !.blocked.y = TRUE,
                        !.onGround = TRUE]
    ELSE result

(* Variant of the obstacle tests in which the Z test keeps the X movement
   applied to the test position: one combined sweep instead of one test per
   axis. *)
CheckObstacleCombined(result, o, position, movement, radius, height) ==
    LET dx == 2 * Abs(position.x + movement.x - o.position.x)
                - (o.width + 2 * radius)
        dy == 2 * Abs(position.y - o.position.y) - o.height
        dz == 2 * Abs(position.z - o.position.z) - (o.depth + 2 * radius)
        dz2 == 2 * Abs(position.z + movement.z - o.position.z)
                 - (o.depth + 2 * radius)
        dy2 == 2 * Abs(position.y + movement.y - o.position.y)
                 - (o.height + height)
        rx == IF dx < 0 /\ dy < 0 /\ dz < 0
              THEN [result EXCEPT !.movement.x = 0, !.blocked.x = TRUE]
              ELSE result
        rz == IF dx < 0 /\ dy < 0 /\ dz2 < 0
              THEN [rx EXCEPT !.movement.z = 0, !.blocked.z = TRUE]
              ELSE rx
    IN  IF movement.y < 0 /\ dx < 0 /\ dy2 < 0 /\ dz < 0
        THEN [rz EXCEPT !.movement.y = o.position.y + (o.height \div 2)
                                         + (height \div 2) - position.y,
                        !.blocked.y = TRUE,
                        !.onGround = TRUE]
        ELSE rz

(* World.checkCollision: the three tests of one obstacle.  The Y test
   reuses dx and dz of the X test. *)
CheckObstacle(result, o, position, movement, radius, height) ==
    LET dx == 2 * Abs(position.x + movement.x - o.position.x)
                - (o.width + 2 * radius)
        dy == 2 * Abs(position.y - o.position.y) - o.height
        dz == 2 * Abs(position.z - o.position.z) - (o.depth + 2 * radius)
        dx2 == 2 * Abs(position.x - o.position.x) - (o.width + 2 * radius)
        dz2 == 2 * Abs(position.z + movement.z - o.position.z)
                 - (o.depth + 2 * radius)
        dy2 == 2 * Abs(position.y + movement.y - o.position.y)
                 - (o.height + height)
        rx == IF dx < 0 /\ dy < 0 /\ dz < 0
              THEN [result EXCEPT !.movement.x = 0, !.blocked.x = TRUE]
              ELSE result
        rz == IF dx2 < 0 /\ dy < 0 /\ dz2 < 0
              THEN [rx EXCEPT !.movement.z = 0, !.blocked.z = TRUE]
              ELSE rx
    IN  IF movement.y < 0 /\ dx < 0 /\ dy2 < 0 /\ dz < 0
        THEN [rz EXCEPT !.movement.y = o.position.y + (o.height \div 2)
                                         + (height \div 2) - position.y,
                        !.blocked.y = TRUE,
                        !.onGround = TRUE]
        ELSE rz

(* World.checkCollision: the loop over this.obstacles from index k. *)
RECURSIVE CheckObstaclesFrom(_, _, _, _, _, _, _)
CheckObstaclesFrom(result, obs, k, position, movement, radius, height) ==
    IF k > Len(obs) THEN result
    ELSE CheckObstaclesFrom(
           IF obs[k].type = "box"
           THEN CheckObstacle(result, obs[k], position, movement, radius, height)
           ELSE result,
           obs, k + 1, position, movement, radius, height)

CheckCollision(obs, position, movement, radius, height) ==
    CheckObstaclesFrom(
        CheckGround(NoCollision(movement), position, movement, height),
        obs, 1, position, movement, radius, height)

(* Gravity per frame of the world's unit of time, scaled as the
   coordinates are. *)
Gravity == 1

(* AiOpponent.updateMovement: gravity, the frame's movement, checkCollision,
   then position and velocity; d is the frame's time. *)
UpdateMovement(obs, position, velocity, d, radius, height) ==
    LET fallen == [velocity EXCEPT !.y = @ - Gravity * d]
        movement == Vec(fallen.x * d, fallen.y * d, fallen.z * d)
        collision == CheckCollision(obs, position, movement, radius, height)
    IN  [position |-> Vec(position.x + collision.movement.x,
                          position.y + collision.movement.y,
                          position.z + collision.movement.z),
         velocity |-> Vec(IF collision.blocked.x THEN 0 ELSE fallen.x,
                          IF collision.blocked.y THEN 0 ELSE fallen.y,
                          IF collision.blocked.z THEN 0 ELSE fallen.z),
         movement |-> movement,
         collision |-> collision]

(* Player: gravity 20.0 against the agents' 9.8, moveSpeed and jumpForce,
   scaled as Gravity is. *)
PlayerGravity == 2

MoveSpeed == 1

JumpForce == 2

(* Player.updateMovement: gravity, the horizontal velocity from the
   controls' move direction, the jump when requested and allowed, the
   frame's movement, checkCollision, then position, velocity and canJump. *)
PlayerUpdateMovement(obs, position, velocity, moveDirection, jump, canJump, d, radius, height) ==
    LET jumps == jump /\ canJump
        driven == Vec(moveDirection.x * MoveSpeed,
                      IF jumps THEN JumpForce
                      ELSE velocity.y - PlayerGravity * d,
                      moveDirection.z * MoveSpeed)
        movement == Vec(driven.x * d, driven.y * d, driven.z * d)
        collision == CheckCollision(obs, position, movement, radius, height)
    IN  [position |-> Vec(position.x + collision.movement.x,
                          position.y + collision.movement.y,
                          position.z + collision.movement.z),
         velocity |-> Vec(IF collision.blocked.x THEN 0 ELSE driven.x,
                          IF collision.blocked.y THEN 0 ELSE driven.y,
                          IF collision.blocked.z THEN 0 ELSE driven.z),
         canJump |-> collision.onGround \/ (canJump /\ ~jumps),
         movement |-> movement,
         collision |-> collision]

(* The controls' move direction, per horizontal axis. *)
MoveDirections == {Vec(x, 0, z) : x \in -1..1, z \in -1..1}

(* A movement step of the player with frame time 1; the velocity it enters
   with is the one its last step's direction left, with any vertical part. *)
PlayerUpdateMovementCall ==
    /\ WorldReady
    /\ \E position \in Positions, moveDirection \in MoveDirections,
          vy \in -1..1, jump \in BOOLEAN, canJump \in BOOLEAN,
          radius \in Radii :
         LET velocity == Vec(moveDirection.x * MoveSpeed, vy,
                             moveDirection.z * MoveSpeed)
         IN  probe' = [op |-> "playerUpdateMovement",
                       obstacles |-> probe.obstacles,
                       position |-> position, velocity |-> velocity,
                       moveDirection |-> moveDirection,
                       jump |-> jump, canJump |-> canJump,
                       radius |-> radius, height |-> ColliderHeight,
                       result |-> PlayerUpdateMovement(
                                     probe.obstacles, position, velocity,
                                     moveDirection, jump, canJump, 1, radius,
                                     ColliderHeight)]
    /\ UNCHANGED <<gameVars, playerVars, weaponVars, ctlVars, aiVars, frameVars,
                   lastOp, events, wonCount, worldHits, expired, visited>>

(* A call of World.checkCollision with an entity's collider. *)
CheckCollisionCall ==
    /\ WorldReady
    /\ \E position \in Positions, movement \in Movements, radius \in Radii :
         probe' = [op |-> "checkCollision", obstacles |-> probe.obstacles,
                   position |-> position, movement |-> movement,
                   radius |-> radius, height |-> ColliderHeight,
                   result |-> CheckCollision(probe.obstacles, position,
                                             movement, radius,
                                             ColliderHeight)]
    /\ UNCHANGED <<gameVars, playerVars, weaponVars, ctlVars, aiVars, frameVars,
                   lastOp, events, wonCount, worldHits, expired, visited>>

(* A movement step of an entity with frame time 1. *)
UpdateMovementCall ==
    /\ WorldReady
    /\ \E position \in Positions, velocity \in Movements, radius \in Radii :
         probe' = [op |-> "updateMovement", obstacles |-> probe.obstacles,
                   position |-> position, velocity |-> velocity,
                   radius |-> radius, height |-> ColliderHeight,
                   result |-> UpdateMovement(probe.obstacles, position,
                                             velocity, 1, radius,
                                             ColliderHeight)]
    /\ UNCHANGED <<gameVars, playerVars, weaponVars, ctlVars, aiVars, frameVars,
                   lastOp, events, wonCount, worldHits, expired, visited>>

(* Spawn search.  The program tries 50 candidates, keeps 20 units from the
   player and falls back to a corner at +-50; the model scales them. *)
MaxAttempts == 2

SpawnClearance == 2

FallbackCoord == 2

(* isPositionValid's default radius, 0.5. *)
DefaultRadius == 1

(* Player.reset: the player's spawn position. *)
PlayerSpawn == Vec(0, EyeHeight, 0)

DistanceSquared(a, b) ==
    (a.x - b.x) * (a.x - b.x) + (a.y - b.y) * (a.y - b.y)
      + (a.z - b.z) * (a.z - b.z)

(* The random candidates of one search and the random corner. *)
SpawnCandidates == {Vec(x, EyeHeight, z) : x \in Coords, z \in Coords}

FallbackCorners ==
    {Vec(x, EyeHeight, z) : x \in {FallbackCoord, -FallbackCoord},
                            z \in {FallbackCoord, -FallbackCoord}}

(* AiManager.generateSpawnPosition: the loop from attempt number attempts
   (0-based); candidates[attempts + 1] is the position drawn in it. *)
RECURSIVE GenerateSpawnPositionFrom(_, _, _, _, _)
GenerateSpawnPositionFrom(obs, playerPos, candidates, attempts, fallback) ==
    IF attempts >= MaxAttempts THEN fallback
    ELSE LET position == candidates[attempts + 1]
         IN  IF DistanceSquared(position, playerPos)
                  < SpawnClearance * SpawnClearance
             THEN GenerateSpawnPositionFrom(obs, playerPos, candidates,
                                            attempts + 1, fallback)
             ELSE IF IsPositionValid(obs, position, DefaultRadius)
             THEN position
             ELSE GenerateSpawnPositionFrom(obs, playerPos, candidates,
                                            attempts + 1, fallback)

GenerateSpawnPosition(obs, playerPos, candidates, fallback) ==
    GenerateSpawnPositionFrom(obs, playerPos, candidates, 0, fallback)

(* A call of AiManager.generateSpawnPosition from createOpponent, the
   player standing at its spawn position. *)
GenerateSpawnPositionCall ==
    /\ WorldReady
    /\ \E candidates \in [1..MaxAttempts -> SpawnCandidates],
          fallback \in FallbackCorners :
         probe' = [op |-> "generateSpawnPosition",
                   obstacles |-> probe.obstacles,
                   candidates |-> candidates, fallback |-> fallback,
                   result |-> GenerateSpawnPosition(probe.obstacles,
                                                    PlayerSpawn, candidates,
                                                    fallback)]
    /\ UNCHANGED <<gameVars, playerVars, weaponVars, ctlVars, aiVars, frameVars,
                   lastOp, events, wonCount, worldHits, expired, visited>>

----------------------------------------------------------------------------
(* Specifications *)

(* Agents out of every detection range. *)
AgentStepQuiet == AgentStep({"far"}, FALSE)

(* Agents that detect the player and each other. *)
AgentStepAll == AgentStep(PlayerRanges, TRUE)

(* The match director with the player's fire: the player's projectiles,
   kills, battles, pause and the win. *)
Next ==
    \/ StartGame
    \/ TogglePause
    \/ MouseDown
    \/ MouseUp
    \/ AutoShootTick
    \/ UpdateBegin
    \/ AgentStepQuiet
    \/ AiProjectilesStep
    \/ BattlesStep
    \/ CollisionsStep
    \/ HitPlayerStep

Spec == Init /\ [][Next]_vars

(* The agents' decisions and fire: AI projectiles, the player's death,
   battles, pause and restart. *)
NextCombat ==
    \/ StartGame
    \/ TogglePause
    \/ UpdateBegin
    \/ AgentStepAll
    \/ AiProjectilesStep
    \/ BattlesStep
    \/ CollisionsStep
    \/ HitPlayerStep

SpecCombat == Init /\ [][NextCombat]_vars

(* The hits of the rifle that leave an agent alive. *)
RifleHitsSurvived == (AiHealth - 1) \div WeaponDamage(RifleIndex)

(* The end of a match, between two frames: the other agents fell to
   attrition, the last one has taken every rifle hit it can survive and is
   attacking the player, who is unhurt. *)
InitDuel ==
    /\ gameActive = TRUE /\ gameOver = FALSE /\ paused = FALSE
    /\ playerDead = FALSE
    /\ playersAlive = 2 /\ playerEliminations = 0
    /\ shotsHit = RifleHitsSurvived /\ shotsFired = 0
    /\ pHealth = PlayerMaxHealth /\ pAlive = TRUE
    /\ medkits = InitialMedkits /\ medkitCooldown = FALSE
    /\ grenades = InitialGrenades /\ grenadeCooldown = FALSE
    /\ switchWeaponCooldown = FALSE
    /\ pProjectiles = <<>>
    /\ weapons = [w \in WeaponIndices |->
                    [NewWeapon(w) EXCEPT
                       !.isEquipped = (w = RifleIndex),
                       !.currentMag = IF w = RifleIndex
                                      THEN @ - RifleHitsSurvived ELSE @]]
    /\ currentWeaponIndex = RifleIndex
    /\ reloadTimers = [w \in WeaponIndices |-> 0]
    /\ isMouseDown = FALSE /\ isLocked = TRUE /\ autoShoot = FALSE
    /\ \E sh \in BOOLEAN :
         opponents =
           [a \in 1..NumAgents |->
              IF a = 1
              THEN [isAlive |-> TRUE,
                    health |-> AiHealth
                                 - RifleHitsSurvived * WeaponDamage(RifleIndex),
                    state |-> "attacking", targetEntity |-> PlayerRef,
                    isShooting |-> sh]
              ELSE [NewOpponent EXCEPT !.isAlive = FALSE]]
    /\ aiProjectiles = <<>>
    /\ pc = "idle" /\ idx = 0 /\ dt = MaxDt
    /\ lastOp = "update" /\ events = <<>> /\ wonCount = 0
    /\ worldHits = [player |-> {}, ai |-> {}]
    /\ expired = [player |-> {}, ai |-> {}]
    /\ visited = NoPass
    /\ probe = NoCall

(* The player fires while the agents engage the player and each other. *)
NextDuel ==
    \/ ShootCall
    \/ UpdateBegin
    \/ AgentStepAll
    \/ AiProjectilesStep
    \/ BattlesStep
    \/ CollisionsStep
    \/ HitPlayerStep

SpecDuel == InitDuel /\ [][NextDuel]_vars

(* Damage and healing in any order. *)
NextHealth ==
    \/ StartGame
    \/ DamageAgent
    \/ DamagePlayer
    \/ UseMedkit
    \/ UpdateBegin
    \/ AgentStepQuiet
    \/ AiProjectilesStep
    \/ BattlesStep
    \/ CollisionsStep
    \/ HitPlayerStep

SpecHealth == Init /\ [][NextHealth]_vars

(* The ammunition a match can have left in every weapon: untouched, the
   magazine fired empty, the last round of all, and nothing at all. *)
AmmoWear == {"fresh", "emptyMag", "lastRound", "dry"}

WornWeapon(w, wear) ==
    [NewWeapon(w) EXCEPT
       !.currentMag = CASE wear = "fresh" -> WeaponMagSize(w)
                        [] wear = "lastRound" -> 1
                        [] OTHER -> 0,
       !.reserveAmmo = IF wear \in {"fresh", "emptyMag"}
                       THEN WeaponMagSize(w) * 3 ELSE 0]

(* A match under way between two frames: after startGame, some firing and
   reloading, and some use of medkits and grenades whose cooldowns have
   run out. *)
InitWeapon ==
    /\ gameActive = TRUE /\ gameOver = FALSE /\ paused = FALSE
    /\ playerDead = FALSE
    /\ playersAlive = Population /\ playerEliminations = 0
    /\ shotsHit = 0 /\ shotsFired = 0
    /\ pHealth = PlayerMaxHealth /\ pAlive = TRUE
    /\ medkits \in 0..InitialMedkits /\ medkitCooldown = FALSE
    /\ grenades \in 0..InitialGrenades /\ grenadeCooldown = FALSE
    /\ switchWeaponCooldown = FALSE
    /\ pProjectiles = <<>>
    /\ \E wear \in AmmoWear :
         weapons = [w \in WeaponIndices |->
                      [WornWeapon(w, wear) EXCEPT
                         !.isEquipped = (w = RifleIndex)]]
    /\ currentWeaponIndex = RifleIndex
    /\ reloadTimers = [w \in WeaponIndices |-> 0]
    /\ isMouseDown = FALSE /\ isLocked = TRUE /\ autoShoot = FALSE
    /\ opponents = [a \in 1..NumAgents |-> NewOpponent]
    /\ aiProjectiles = <<>>
    /\ pc = "idle" /\ idx = 0 /\ dt = MaxDt
    /\ lastOp = "init" /\ events = <<>> /\ wonCount = 0
    /\ worldHits = [player |-> {}, ai |-> {}]
    /\ expired = [player |-> {}, ai |-> {}]
    /\ visited = NoPass
    /\ probe = NoCall

(* The player's weapons and equipment: the input handlers, the reload
   timeout and hits on the player, between two frames. *)
NextWeapon ==
    \/ StartGame
    \/ ShootCall
    \/ KeyReload
    \/ ReloadTimeout
    \/ SwitchWeapon
    \/ SwitchWeaponCall

SpecWeapon == InitWeapon /\ [][NextWeapon]_vars

(* The player's equipment and the restart of a match. *)
NextEquip ==
    \/ StartGame
    \/ KeyReload
    \/ ReloadTimeout
    \/ SwitchWeapon
    \/ UseMedkit
    \/ ThrowGrenade
    \/ DamagePlayer

SpecEquip == InitWeapon /\ [][NextEquip]_vars

(* The world's functions, called on any world that createObstacles can
   build. *)
NextWorld ==
    \/ IsPositionValidCall
    \/ CheckCollisionCall
    \/ UpdateMovementCall
    \/ PlayerUpdateMovementCall
    \/ GenerateSpawnPositionCall

SpecWorld == InitWorld /\ [][NextWorld]_vars

----------------------------------------------------------------------------
(* One update of one agent, with the distances it measures.  Agent 1 is the
   agent updated, agent 2 the other opponent of the match. *)

(* Distances around the two ranges of an agent; a decision reads only how a
   distance compares with each range. *)
Distances == {AttackRange - 1, AttackRange, AttackRange + 1,
              DetectionRange - 1, DetectionRange, DetectionRange + 1}

(* The agent updated: any decision state, any target left by an earlier
   update, shooting or not. *)
UpdatedAgents ==
    {[isAlive |-> alive, health |-> AiHealth, state |-> st,
      targetEntity |-> tg, isShooting |-> sh] :
        alive \in BOOLEAN, st \in {"patrolling", "chasing", "attacking"},
        tg \in {NoTarget, PlayerRef, 2}, sh \in BOOLEAN}

(* The other opponent, alive or eliminated. *)
OtherAgents == {[NewOpponent EXCEPT !.isAlive = alive] : alive \in BOOLEAN}

AgentsReady == probe.op = "agents"

InitAgents ==
    /\ InitGame
    /\ probe \in {[op |-> "agents", opponents |-> <<o, other>>] :
                     o \in UpdatedAgents, other \in OtherAgents}

(* AiOpponent.update of a dead agent returns at once. *)
OpponentUpdate(o, in) == IF ~o.isAlive THEN o ELSE AiUpdate(o, in)

(* The target an update's decision leaves, before the behaviour runs. *)
DecidedTarget(o, in) == Decide(o, in).targetEntity

(* A call of AiOpponent.update on agent 1.  The horizontal distance to a
   target is never more than the distance to it. *)
AiUpdateCall ==
    /\ AgentsReady
    /\ \E playerDistance \in Distances, otherDistance \in Distances,
          tgtHorizontal \in Distances, rnd \in BOOLEAN,
          patrolElapsed \in BOOLEAN, cooled \in BOOLEAN :
         LET opps == probe.opponents
             dist == <<0, otherDistance>>
             in == Perceive(1, opps, playerDistance, dist, rnd, patrolElapsed,
                            tgtHorizontal, cooled)
             tg == DecidedTarget(opps[1], in)
         IN  /\ tg = PlayerRef => tgtHorizontal <= playerDistance
             /\ tg = 2 => tgtHorizontal <= otherDistance
             /\ probe' = [op |-> "update", opponents |-> opps,
                          playerDistance |-> playerDistance,
                          otherDistance |-> otherDistance,
                          tgtHorizontal |-> tgtHorizontal,
                          in |-> in,
                          result |-> OpponentUpdate(opps[1], in)]
    /\ UNCHANGED <<gameVars, playerVars, weaponVars, ctlVars, aiVars, frameVars,
                   lastOp, events, wonCount, worldHits, expired, visited>>

NextAgents == AiUpdateCall

SpecAgents == InitAgents /\ [][NextAgents]_vars

----------------------------------------------------------------------------
(* The updates of one alive agent, frame after frame, with the player and
   the other opponent out of detectionRange; patrolTimer is in ticks. *)

(* AiOpponent.update: patrolTimer = 5 + Math.random() * 5 seconds. *)
PatrolTimerMin == 5 * TicksPerSecond

PatrolTimerMax == 10 * TicksPerSecond

(* Timer values on the grid of the frame deltas. *)
OnGrid(t) == t % MaxDt = 0

(* The timers drawn. *)
PatrolResets == {t \in PatrolTimerMin..PatrolTimerMax : OnGrid(t)}

(* The horizontal distances to a target kept from an earlier update: below,
   at and above attackRange. *)
StaleTargetDistances == {AttackRange - 1, AttackRange, AttackRange + 1}

(* Variant of the patrol timer's test that never passes. *)
PatrolElapsedNever(timer) == FALSE

(* AiOpponent.update: the test of the patrol timer. *)
PatrolElapsed(timer) == timer <= 0

(* Game time followed after the surroundings became empty, in ticks. *)
MaxQuietTicks == 130

(* A distance outside detectionRange. *)
OutOfRange == DetectionRange + 1

(* The agent when its surroundings become empty: any state and target an
   earlier update left, a patrol timer that ran out under an earlier chase
   or is still running. *)
InitPatrol ==
    /\ InitGame
    /\ probe \in {[op |-> "quiet", start |-> o.state, agent |-> o,
                    patrolTimer |-> t, quietTicks |-> 0] :
                     o \in {u \in UpdatedAgents : u.isAlive},
                     t \in {u \in -MaxDt..PatrolTimerMax : OnGrid(u)}}

(* One frame's AiOpponent.update of the agent: the timer runs by the frame's
   delta, the decision finds nothing in range, the behaviour of the state
   runs; patrol() draws a new patrol point and timer when the agent has
   reached its patrol point. *)
QuietUpdate ==
    /\ probe.op = "quiet"
    /\ probe.quietTicks < MaxQuietTicks
    /\ \E d \in DtValues, tgtHorizontal \in StaleTargetDistances,
          cooled \in BOOLEAN, reached \in BOOLEAN :
         LET timer == probe.patrolTimer - d
             in == Perceive(1, <<probe.agent, NewOpponent>>, OutOfRange,
                            <<0, OutOfRange>>, FALSE, PatrolElapsed(timer),
                            tgtHorizontal, cooled)
             decided == Decide(probe.agent, in)
             newPoint == /\ in.playerRange = "far"
                         /\ ~(in.nearest # NoTarget /\ in.rnd)
                         /\ in.patrolElapsed
             drawn == newPoint \/ (decided.state = "patrolling" /\ reached)
         IN  \E next \in IF drawn THEN PatrolResets ELSE {timer} :
               probe' = [probe EXCEPT
                           !.agent = OpponentUpdate(probe.agent, in),
                           !.patrolTimer = next,
                           !.quietTicks = @ + d]
    /\ UNCHANGED <<gameVars, playerVars, weaponVars, ctlVars, aiVars, frameVars,
                   lastOp, events, wonCount, worldHits, expired, visited>>

NextPatrol == QuietUpdate

(* The frame loop keeps running the agent's update. *)
SpecPatrol == InitPatrol /\ [][NextPatrol]_vars /\ WF_vars(QuietUpdate)

----------------------------------------------------------------------------
(* Properties *)

Occurrences(ev, e) == Cardinality({i \in DOMAIN ev : ev[i] = e})

(* The elimination events among ev. *)
Eliminations(ev) ==
    Occurrences(ev, "PlayerEliminatedAgent")
      + Occurrences(ev, "AgentEliminatedAgent")

MatchStarted == gameActive /\ Len(opponents) > 0

(* C1: in a match the PlayerWon event has fired exactly once if every
   agent is eliminated and not at all otherwise; it fires in the step that
   eliminates the last alive agent, so whenever it has fired playersAlive
   is 1 and the phase is Over, and the events of a frame hold it at most
   once and only with playersAlive = 1. *)
C1_PlayerWonExactlyOnce ==
    /\ wonCount \in {0, 1}
    /\ (wonCount = 1) <=> (MatchStarted /\ AliveAgents = {})
    /\ wonCount = 1 => (playersAlive = 1 /\ Phase = "Over")
    /\ Occurrences(events, "PlayerWon") <= 1
    /\ Occurrences(events, "PlayerWon") = 1 =>
         (wonCount = 1 /\ playersAlive = 1 /\ lastOp = "update")

(* The frame in which the player's projectile eliminated the last agent. *)
C1_Witness ==
    /\ pc = "hitPlayer"
    /\ wonCount = 1
    /\ events[Len(events)] = "PlayerWon"
    /\ shotsHit > 0

(* C2: right after startGame the phase is Active, Population - 1 agents
   exist and each is alive, at full health and patrolling, playersAlive is
   the number of agents plus one, the elimination and shot counters are 0
   and both projectile collections are empty. *)
C2_StartMatchResets ==
    lastOp = "startGame" =>
        /\ Phase = "Active"
        /\ Len(opponents) = Population - 1
        /\ \A a \in DOMAIN opponents :
             /\ opponents[a].isAlive
             /\ opponents[a].health = AiHealth
             /\ opponents[a].state = "patrolling"
        /\ playersAlive = Len(opponents) + 1
        /\ playerEliminations = 0
        /\ shotsFired = 0
        /\ shotsHit = 0
        /\ pProjectiles = <<>>
        /\ aiProjectiles = <<>>

(* A match started again after the player was eliminated in an earlier one. *)
C2_Witness == lastOp = "startGame" /\ playerDead

(* C3: in every match, first or restarted, the step in which a projectile
   of an agent brings the player's health to 0 emits PlayerEliminated and
   leaves the phase Over. *)
C3_PlayerEliminatedEndsMatch ==
    [][(pc = "hitPlayer" /\ pHealth > 0 /\ pHealth' = 0) =>
         (Occurrences(events', "PlayerEliminated") >= 1 /\ gameOver')]_vars

(* C4: Game.update in a phase other than Active changes nothing of the
   simulation, the controls or the frame position. *)
C4_UpdateOutsideActiveIsNoOp ==
    [][(pc = "idle" /\ Phase # "Active" /\ lastOp' = "update") =>
         UNCHANGED <<simVars, ctlVars, frameVars>>]_vars

(* An update that arrived while the match was paused with a projectile of
   the player in flight. *)
C4_Witness ==
    /\ lastOp = "update"
    /\ Phase = "Paused"
    /\ pc = "idle"
    /\ Len(pProjectiles) > 0

(* C5: between the pause and the resume nothing of the simulation state
   changes, whatever handlers and timer callbacks run. *)
C5_PausedIsFrozen ==
    [][(paused /\ paused') => UNCHANGED simVars]_vars

(* C6: outside startGame playersAlive never increases, and in every step
   it drops by the number of elimination events the step emits: nothing
   outside a frame, one per event inside. *)
C6_PlayersAliveDropsPerElimination ==
    [][lastOp' = "startGame" \/
       /\ playersAlive' <= playersAlive
       /\ pc = "idle" => playersAlive' = playersAlive
       /\ pc # "idle" =>
            playersAlive - playersAlive' =
              Eliminations(events') - Eliminations(events)]_vars

(* A match in which one agent fell to another agent and one to the player. *)
C6_Witness ==
    /\ playersAlive = 1
    /\ playerEliminations = 1
    /\ Eliminations(events) >= 1

(* C7: playersAlive never drops below 1. *)
C7_PlayersAliveAtLeastOne == playersAlive >= 1

(* Every agent eliminated, the player's projectiles still in the frame. *)
C7_Witness ==
    /\ playersAlive = 1
    /\ MatchStarted
    /\ AliveAgents = {}
    /\ pc = "hitPlayer"

(* C8: the health of the player and of every agent stays between 0 and
   its maximum. *)
C8_HealthWithinBounds ==
    /\ pHealth >= 0 /\ pHealth <= PlayerMaxHealth
    /\ \A a \in DOMAIN opponents :
         opponents[a].health >= 0 /\ opponents[a].health <= AiHealth

(* An agent killed by damage larger than its remaining health, and the
   player hurt and then healed twice, back at full health. *)
C8_Witness ==
    /\ playerEliminations >= 1
    /\ \E a \in DOMAIN opponents :
         ~opponents[a].isAlive /\ opponents[a].health = 0
    /\ medkits = 0
    /\ pHealth = PlayerMaxHealth

(* The entity a targetEntity value refers to is alive. *)
TargetAlive(t, opps, playerAlive) ==
    IF t = PlayerRef THEN playerAlive ELSE opps[t].isAlive

(* C9: after every update of an alive agent its targetEntity is none or
   refers to an alive entity. *)
C9_NoDeadTargetAfterUpdate ==
    [][(pc = "agents" /\ opponents[idx].isAlive) =>
         \/ opponents'[idx].targetEntity = NoTarget
         \/ TargetAlive(opponents'[idx].targetEntity, opponents', pAlive')]_vars

(* The projectiles of projs from index i on that neither collide with the
   world (coll) nor expire within d, each aged by d, in order. *)
RECURSIVE Survivors(_, _, _, _)
Survivors(projs, i, coll, d) ==
    IF i > Len(projs) THEN <<>>
    ELSE LET rest == Survivors(projs, i + 1, coll, d)
         IN  IF i \in coll \/ projs[i].lifetime - d <= 0
             THEN rest
             ELSE <<[projs[i] EXCEPT !.lifetime = @ - d,
                                     !.distance = @ + projs[i].speed * d]>>
                  \o rest

(* C10: a projectile pass (Player.updateProjectiles in the first step of a
   frame, AiManager.updateProjectiles later in it) runs with dt > 0 and
   leaves in the collection exactly the projectiles that neither expired
   nor collided with the world, each with its lifetime lowered by dt. *)
C10_ProjectilePass ==
    [][/\ (pc = "idle" /\ pc' # "idle" /\ pAlive) =>
            /\ dt' > 0
            /\ pProjectiles' = Survivors(pProjectiles, 1, worldHits'.player, dt')
       /\ pc = "aiProjectiles" =>
            /\ dt > 0
            /\ aiProjectiles' = Survivors(aiProjectiles, 1, worldHits'.ai, dt)]_vars

(* After the player's pass: of two projectiles the first hit the world and
   the second flies on. *)
C10_Witness ==
    /\ pc = "agents"
    /\ worldHits.player = {1}
    /\ Len(pProjectiles) = 1
    /\ pProjectiles[1].lifetime < ProjectileLifetime(WeaponRange(RifleIndex),
                                                     WeaponSpeed(RifleIndex))

(* The remaining lifetime of p is range / speed less the time it has
   travelled, distance / speed (cross-multiplied), and is positive. *)
LifetimeAccounted(p) ==
    /\ p.speed * p.lifetime + p.distance = p.range * TicksPerSecond
    /\ p.lifetime > 0

(* In a pass over projs with frame time d, a projectile that does not hit
   the world is removed as expired exactly when the time it has travelled,
   d included, reaches range / speed; nothing else leaves the collection. *)
ExpiresOnTime(projs, after, coll, gone, d) ==
    /\ \A i \in DOMAIN projs \ coll :
         (projs[i].distance + projs[i].speed * d
            >= projs[i].range * TicksPerSecond) <=> (i \in gone)
    /\ gone \cap coll = {}
    /\ Len(after) = Len(projs) - Cardinality(coll \cup gone)

(* C11: a projectile starts with lifetime range / speed (3/4 s for an
   agent's, range 30 and speed 40); with no obstacle in its way a pass
   removes it in the first update at which the time since its creation
   reaches range / speed and not earlier; the pass records no hit: shotsHit
   and every health stay as they are. *)
C11_ExpiryAtRangeOverSpeed ==
    [][/\ \A i \in DOMAIN pProjectiles' : LifetimeAccounted(pProjectiles'[i])
       /\ \A i \in DOMAIN aiProjectiles' :
            /\ LifetimeAccounted(aiProjectiles'[i])
            /\ aiProjectiles'[i].distance = 0 =>
                 4 * aiProjectiles'[i].lifetime = 3 * TicksPerSecond
       /\ (pc = "idle" /\ pc' # "idle" /\ pAlive) =>
            /\ ExpiresOnTime(pProjectiles, pProjectiles', worldHits'.player,
                             expired'.player, dt')
            /\ UNCHANGED <<shotsHit, pHealth, opponents>>
       /\ pc = "aiProjectiles" =>
            /\ ExpiresOnTime(aiProjectiles, aiProjectiles', worldHits'.ai,
                             expired'.ai, dt)
            /\ UNCHANGED <<shotsHit, pHealth, opponents>>]_vars

(* After the agents' pass: the one projectile in flight met no obstacle,
   expired and is gone, and the player is unhurt. *)
C11_Witness ==
    /\ pc = "battles"
    /\ expired.ai = {1}
    /\ worldHits.ai = {}
    /\ aiProjectiles = <<>>
    /\ pHealth = PlayerMaxHealth

(* The point lies strictly inside box o enlarged by radius on X and Z. *)
StrictlyInsideEnlarged(o, position, radius) ==
    /\ 2 * o.position.x - o.width - 2 * radius < 2 * position.x
    /\ 2 * position.x < 2 * o.position.x + o.width + 2 * radius
    /\ 2 * o.position.y - o.height < 2 * position.y
    /\ 2 * position.y < 2 * o.position.y + o.height
    /\ 2 * o.position.z - o.depth - 2 * radius < 2 * position.z
    /\ 2 * position.z < 2 * o.position.z + o.depth + 2 * radius

(* C12: isPositionValid answers false exactly when the point lies strictly
   inside some obstacle box enlarged by the radius on X and Z and not on Y. *)
C12_IsPositionValidIffOutsideEveryBox ==
    probe.op = "isPositionValid" =>
        (probe.result = FALSE <=>
           \E k \in DOMAIN probe.obstacles :
              StrictlyInsideEnlarged(probe.obstacles[k], probe.position,
                                     probe.radius))

(* A point beside a box, inside it only through the radius, found invalid
   by the second box of the list. *)
C12_Witness ==
    /\ probe.op = "isPositionValid"
    /\ probe.result = FALSE
    /\ probe.radius = 1
    /\ Len(probe.obstacles) = 2
    /\ ~InsideBox(probe.obstacles[1], probe.position, probe.radius)
    /\ ~InsideBox(probe.obstacles[2], probe.position, 0)

(* C13: an entity resting exactly on the ground, position.y = height / 2,
   with no movement at all is reported on the ground by checkCollision and
   is not displaced on Y. *)
C13_RestingEntityIsOnGround ==
    (/\ probe.op = "checkCollision"
     /\ 2 * probe.position.y = probe.height
     /\ probe.movement = Vec(0, 0, 0))
        => (probe.result.onGround /\ probe.result.movement.y = 0)

(* The list of obstacles without its k-th. *)
Without(obs, k) ==
    [i \in 1..(Len(obs) - 1) |-> IF i < k THEN obs[i] ELSE obs[i + 1]]

(* The movement of the probed step on X alone, or on Z alone, would put the
   entity inside obstacle o. *)
IntoX(o) ==
    StrictlyInsideEnlarged(o, Vec(probe.position.x + probe.result.movement.x,
                                  probe.position.y, probe.position.z),
                           probe.radius)

IntoZ(o) ==
    StrictlyInsideEnlarged(o, Vec(probe.position.x, probe.position.y,
                                  probe.position.z + probe.result.movement.z),
                           probe.radius)

(* The probed step in the world without its k-th obstacle. *)
StepWithout(k) ==
    UpdateMovement(Without(probe.obstacles, k), probe.position,
                   probe.velocity, 1, probe.radius, probe.height)

(* C14: wall-slide.  A movement step whose X displacement alone would put
   the entity inside an obstacle is blocked on X, with no X displacement and
   X velocity 0, and its Z displacement and Z velocity are those of the same
   step without that obstacle; the same with X and Z exchanged.  Only an
   entity already inside the obstacle is stopped by it on both axes. *)
C14_WallSlide ==
    probe.op = "updateMovement" =>
        \A k \in DOMAIN probe.obstacles :
           LET o == probe.obstacles[k]
               r == probe.result
           IN  /\ IntoX(o) => /\ r.collision.blocked.x
                              /\ r.collision.movement.x = 0
                              /\ r.position.x = probe.position.x
                              /\ r.velocity.x = 0
               /\ IntoZ(o) => /\ r.collision.blocked.z
                              /\ r.collision.movement.z = 0
                              /\ r.position.z = probe.position.z
                              /\ r.velocity.z = 0
               /\ (IntoX(o) /\ ~IntoZ(o)) =>
                      /\ r.collision.movement.z
                           = StepWithout(k).collision.movement.z
                      /\ r.velocity.z = StepWithout(k).velocity.z
               /\ (IntoZ(o) /\ ~IntoX(o)) =>
                      /\ r.collision.movement.x
                           = StepWithout(k).collision.movement.x
                      /\ r.velocity.x = StepWithout(k).velocity.x
               /\ (IntoX(o) /\ IntoZ(o)) =>
                      StrictlyInsideEnlarged(o, probe.position, probe.radius)

(* An entity moving diagonally into a wall: stopped on X by the only
   obstacle, it keeps its Z displacement and Z velocity. *)
C14_Witness ==
    /\ probe.op = "updateMovement"
    /\ Len(probe.obstacles) = 1
    /\ IntoX(probe.obstacles[1])
    /\ ~StrictlyInsideEnlarged(probe.obstacles[1], probe.position,
                               probe.radius)
    /\ probe.velocity.x # 0
    /\ probe.velocity.z # 0
    /\ probe.result.velocity.x = 0
    /\ probe.result.position.x = probe.position.x
    /\ probe.result.velocity.z = probe.velocity.z
    /\ probe.result.position.z = probe.position.z + probe.velocity.z

(* C15: every position generateSpawnPosition returns, a found candidate or
   the fallback corner, is outside every obstacle enlarged by the default
   radius and at least the spawn clearance from the player's spawn. *)
C15_SpawnPositionValidAndFar ==
    probe.op = "generateSpawnPosition" =>
        /\ \A k \in DOMAIN probe.obstacles :
              ~StrictlyInsideEnlarged(probe.obstacles[k], probe.result,
                                      DefaultRadius)
        /\ DistanceSquared(probe.result, PlayerSpawn)
             >= SpawnClearance * SpawnClearance

(* C16: a shot with an empty magazine creates no projectile and consumes no
   ammunition, and, when the weapon is equipped, not reloading, past its
   fire-rate interval and has reserve ammunition, starts a reload with one
   timeout scheduled; otherwise it changes no weapon.  A reload asked for
   with no reserve, a full magazine or a reload in progress changes no
   weapon and schedules nothing. *)
C16_EmptyMagazineAndRefusedReload ==
    [][LET w == currentWeaponIndex
           wp == weapons[w]
       IN  /\ (lastOp' = "shoot" /\ pAlive /\ wp.currentMag = 0) =>
                 /\ pProjectiles' = pProjectiles
                 /\ \A v \in WeaponIndices :
                       /\ weapons'[v].currentMag = weapons[v].currentMag
                       /\ weapons'[v].reserveAmmo = weapons[v].reserveAmmo
                 /\ IF /\ probe'.gateOpen /\ wp.isEquipped
                       /\ ~wp.isReloading /\ wp.reserveAmmo > 0
                    THEN /\ weapons'[w].isReloading
                         /\ reloadTimers'[w] = reloadTimers[w] + 1
                    ELSE UNCHANGED <<weapons, reloadTimers>>
           /\ (/\ lastOp' = "keyReload"
               /\ \/ wp.reserveAmmo <= 0
                  \/ wp.currentMag = WeaponMagSize(w)
                  \/ wp.isReloading) =>
                 UNCHANGED <<weapons, reloadTimers, pProjectiles>>]_vars

(* A shot with the sniper's magazine empty and reserve left has started the
   reload; nothing was fired. *)
C16_Witness ==
    /\ lastOp = "shoot"
    /\ probe = [op |-> "shoot", gateOpen |-> TRUE]
    /\ weapons[currentWeaponIndex].currentMag = 0
    /\ weapons[currentWeaponIndex].reserveAmmo > 0
    /\ weapons[currentWeaponIndex].isReloading
    /\ reloadTimers[currentWeaponIndex] = 1
    /\ pProjectiles = <<>>

(* C17: switchWeapon called with an index outside the weapons array does
   nothing: no exception, the weapons and the current index as they were,
   the current weapon defined and equipped. *)
C17_InvalidSwitchIsNoOp ==
    (/\ lastOp = "switchWeaponCall"
     /\ probe.op = "switchWeapon"
     /\ probe.index \notin WeaponIndices)
        => /\ ~probe.result.threw
           /\ probe.result.currentWeaponIndex \in WeaponIndices
           /\ probe.result.currentWeaponIndex = currentWeaponIndex
           /\ probe.result.weapons = weapons
           /\ probe.result.weapons[currentWeaponIndex].isEquipped
           /\ probe.result.switchWeaponCooldown = switchWeaponCooldown

(* C18: useMedkit changes nothing while its cooldown runs, with no medkit
   left or at full health; throwGrenade changes nothing while its cooldown
   runs or with no grenade left; switchWeapon changes nothing while its
   cooldown runs.  A successful use takes exactly one medkit or grenade, no
   other step but the reset of a new match changes the counts, and they are
   never negative. *)
C18_EquipmentGuards ==
    [][/\ lastOp' = "useMedkit" =>
             IF medkitCooldown \/ medkits <= 0 \/ pHealth >= PlayerMaxHealth
             THEN UNCHANGED <<playerVars, weaponVars>>
             ELSE /\ medkits' = medkits - 1
                  /\ grenades' = grenades
       /\ lastOp' = "throwGrenade" =>
             IF grenadeCooldown \/ grenades <= 0
             THEN UNCHANGED <<playerVars, weaponVars>>
             ELSE /\ grenades' = grenades - 1
                  /\ medkits' = medkits
                  /\ Len(pProjectiles') = Len(pProjectiles) + 1
       /\ (lastOp' = "switchWeapon" /\ switchWeaponCooldown) =>
             UNCHANGED <<playerVars, weaponVars>>
       /\ lastOp' \notin {"useMedkit", "startGame"} => medkits' = medkits
       /\ lastOp' \notin {"throwGrenade", "startGame"} => grenades' = grenades
       /\ medkits' >= 0
       /\ grenades' >= 0]_vars

(* A throw refused for lack of grenades, after a medkit was used. *)
C18_Witness ==
    /\ lastOp = "throwGrenade"
    /\ grenades = 0
    /\ ~grenadeCooldown
    /\ pProjectiles = <<>>
    /\ medkits = InitialMedkits - 1
    /\ medkitCooldown
    /\ switchWeaponCooldown

(* C19: right after startGame the player is alive at full health, every
   weapon has a full magazine and no reload in progress or pending, the
   medkits and grenades are at their initial counts and no action cooldown
   runs. *)
C19_StartMatchResetsPlayer ==
    lastOp = "startGame" =>
        /\ pAlive
        /\ pHealth = PlayerMaxHealth
        /\ pProjectiles = <<>>
        /\ \A w \in WeaponIndices :
              /\ weapons[w].currentMag = WeaponMagSize(w)
              /\ ~weapons[w].isReloading
              /\ reloadTimers[w] = 0
        /\ currentWeaponIndex = RifleIndex
        /\ medkits = InitialMedkits
        /\ grenades = InitialGrenades
        /\ ~medkitCooldown
        /\ ~grenadeCooldown
        /\ ~switchWeaponCooldown

(* C21: the steps of one update run in the order agents, agent-owned
   projectiles, player-owned projectiles against agents, agent-owned
   projectiles against the player, attrition; the attrition of a frame
   comes after both hit tests and ends the frame. *)
C21_FrameOrder ==
    [][/\ (pc = "idle" /\ pc' # "idle") => pc' \in {"agents", "aiProjectiles"}
       /\ pc = "agents" => pc' \in {"agents", "aiProjectiles"}
       /\ pc = "aiProjectiles" => pc' = "collisions"
       /\ pc = "collisions" => pc' = "hitPlayer"
       /\ pc = "hitPlayer" => pc' = "battles"
       /\ pc = "battles" => pc' = "idle"]_vars

(* C22: the hit-test pass over the player's projectiles gives the callback
   every projectile that was in the collection when the pass began, each
   exactly once and in order, whatever was removed on the way. *)
C22_EveryProjectileProcessedOnce ==
    pc = "hitPlayer" =>
        visited.indices = [i \in 1..visited.count |-> i]

(* C23: in the hit test of the player's projectiles every hit removes its
   projectile and adds 1 to shotsHit; only alive agents are hit, a single
   hit changes exactly one agent, by the projectile's damage; an agent
   whose health reaches 0 is no longer alive, and every agent killed adds
   one PlayerEliminatedAgent event, 1 to playerEliminations and takes 1
   from playersAlive. *)
C23_PlayerHitDamagesOneAgent ==
    [][pc = "collisions" =>
         LET hits == shotsHit' - shotsHit
             changed == {a \in DOMAIN opponents :
                           opponents'[a] # opponents[a]}
             kills == {a \in changed : ~opponents'[a].isAlive}
         IN  /\ hits >= 0
             /\ Len(pProjectiles') = Len(pProjectiles) - hits
             /\ Cardinality(changed) <= hits
             /\ hits > 0 => changed # {}
             /\ \A a \in changed :
                   /\ opponents[a].isAlive
                   /\ opponents'[a].health < opponents[a].health
                   /\ opponents'[a].isAlive <=> opponents'[a].health > 0
                   /\ opponents'[a] =
                        [opponents[a] EXCEPT
                           !.health = opponents'[a].health,
                           !.isAlive = opponents'[a].isAlive]
             /\ hits = 1 =>
                   \E k \in DOMAIN pProjectiles, a \in DOMAIN opponents :
                      /\ pProjectiles' = Splice(pProjectiles, k)
                      /\ changed = {a}
                      /\ opponents'[a].health =
                           Max(0, opponents[a].health - pProjectiles[k].damage)
             /\ playerEliminations' - playerEliminations = Cardinality(kills)
             /\ playersAlive - playersAlive' = Cardinality(kills)
             /\ Occurrences(events', "PlayerEliminatedAgent")
                  - Occurrences(events, "PlayerEliminatedAgent")
                  = Cardinality(kills)]_vars

(* The hit test of a frame has just killed an agent with the one projectile
   it was given, while the other agent lives on. *)
C23_Witness ==
    /\ pc = "hitPlayer"
    /\ visited = [count |-> 1, indices |-> <<1>>]
    /\ pProjectiles = <<>>
    /\ Occurrences(events, "PlayerEliminatedAgent") = 1
    /\ playerEliminations = 1
    /\ playersAlive = Population - 1
    /\ Cardinality(AliveAgents) = NumAgents - 1

(* C24: the attrition step eliminates at most one agent and only with
   playersAlive at or above the threshold; the victim was alive, another
   alive agent was there to be the attacker, only the victim's alive flag
   changes, playersAlive drops by exactly 1 with one AgentEliminatedAgent
   event, and so does not drop below the threshold less 1; without an
   elimination the step changes nothing of the match. *)
C24_AttritionAtMostOnePerFrame ==
    [][pc = "battles" =>
         LET changed == {a \in DOMAIN opponents :
                           opponents'[a] # opponents[a]}
             emitted == Occurrences(events', "AgentEliminatedAgent")
                          - Occurrences(events, "AgentEliminatedAgent")
         IN  /\ Cardinality(changed) <= 1
             /\ emitted = Cardinality(changed)
             /\ playersAlive - playersAlive' = Cardinality(changed)
             /\ Len(events') = Len(events) + Cardinality(changed)
             /\ UNCHANGED <<playerEliminations, shotsHit, gameOver, wonCount,
                            pHealth, pAlive, pProjectiles, aiProjectiles>>
             /\ \A v \in changed :
                   /\ playersAlive >= MinPlayersForBattles
                   /\ playersAlive' >= MinPlayersForBattles - 1
                   /\ opponents[v].isAlive
                   /\ \E a \in AliveAgents : a # v /\ opponents'[a].isAlive
                   /\ opponents'[v] = [opponents[v] EXCEPT !.isAlive = FALSE]]_vars

(* The attrition step has just eliminated one agent of a full match; the
   hit tests of the frame are still to come. *)
C24_Witness ==
    /\ pc = "collisions"
    /\ events = <<"AgentEliminatedAgent">>
    /\ playersAlive = Population - 1
    /\ Cardinality(AliveAgents) = NumAgents - 1
    /\ playerEliminations = 0

(* C25: in an update of an alive agent the player is treated as detected
   exactly when the distance to the player is at most detectionRange, the
   distance equal to detectionRange included. *)
C25_DetectedIffWithinDetectionRange ==
    (probe.op = "update" /\ probe.opponents[1].isAlive)
        => ((probe.in.playerRange # "far")
              <=> (probe.playerDistance <= DetectionRange))

(* C26: after an update of an alive agent in which the player is detected,
   the agent's target is the player and its state is attacking when the
   distance to the player is below attackRange and chasing otherwise. *)
C26_PlayerDetectionHasPriority ==
    (probe.op = "update" /\ probe.opponents[1].isAlive
       /\ probe.in.playerRange # "far")
        => /\ probe.result.targetEntity = PlayerRef
           /\ probe.result.state = IF probe.playerDistance < AttackRange
                                    THEN "attacking" ELSE "chasing"

(* C27: an agent whose alive flag is false is left exactly as it is by every
   step but the start of a match: no step of a frame changes any of its
   fields or sets the flag again, its turn in the opponents loop adds no
   projectile, and no agent takes it as a new target. *)
C27_DeadAgentsSkipped ==
    [][~(pc = "idle" /\ lastOp' = "startGame") =>
         \A a \in DOMAIN opponents :
            ~opponents[a].isAlive =>
               /\ opponents'[a] = opponents[a]
               /\ (pc = "agents" /\ idx = a) => aiProjectiles' = aiProjectiles
               /\ \A b \in DOMAIN opponents :
                     opponents'[b].targetEntity = a
                        => opponents[b].targetEntity = a]_vars

(* A later frame's opponents loop has passed an agent that was eliminated
   while it was shooting, next to an alive agent that was updated. *)
C27_Witness ==
    /\ pc = "aiProjectiles"
    /\ events = <<>>
    /\ \E a \in DOMAIN opponents :
         /\ ~opponents[a].isAlive
         /\ opponents[a].isShooting
         /\ opponents[a].state = "attacking"
    /\ \E b \in DOMAIN opponents :
         opponents[b].isAlive /\ opponents[b].state # "patrolling"

(* C28: an agent adds a projectile in its turn of the opponents loop only
   when its update of that frame ends in the attacking state. *)
C28_ProjectileOnlyWhenAttacking ==
    [][(pc = "agents" /\ Len(aiProjectiles') > Len(aiProjectiles))
         => opponents'[idx].state = "attacking"]_vars

(* C29: an alive agent with neither the player nor another alive agent inside
   detectionRange from some frame on is in the patrolling state once 10 s of
   game time have passed since, at the latest, and once patrolling it stays
   patrolling. *)
C29_QuietAgentPatrols ==
    /\ <>[](probe.agent.state = "patrolling")
    /\ [](probe.quietTicks >= PatrolTimerMax
            => probe.agent.state = "patrolling")
    /\ [][probe.agent.state = "patrolling"
            => probe'.agent.state = "patrolling"]_vars

(* 10 s after its surroundings became empty an agent that was attacking the
   player is patrolling. *)
C29_Witness ==
    /\ probe.op = "quiet"
    /\ probe.start = "attacking"
    /\ probe.agent.targetEntity = PlayerRef
    /\ probe.agent.state = "patrolling"
    /\ probe.quietTicks = PatrolTimerMax

(* C30: a movement step of the player without a jump ends with the position
   and the velocity that a movement step of an agent ends with from the same
   position, velocity, collider, obstacles and frame time. *)
C30_SameResolverForPlayerAndAgents ==
    (probe.op = "playerUpdateMovement" /\ ~probe.jump)
        => LET a == UpdateMovement(probe.obstacles, probe.position,
                                   probe.velocity, 1, probe.radius,
                                   probe.height)
           IN  /\ probe.result.position = a.position
               /\ probe.result.velocity = a.velocity

(* C31: the reload timer's callback refills a magazine only as the end of a
   reload in progress: whenever it runs for a weapon, that weapon's
   isReloading is true. *)
C31_RefillOnlyCompletesReload ==
    [][lastOp' = "reloadTimeout" =>
         \A w \in WeaponIndices :
            reloadTimers'[w] < reloadTimers[w] => weapons[w].isReloading]_vars

(* The rounds a weapon holds, magazine and reserve. *)
TotalAmmo(wp) == wp.currentMag + wp.reserveAmmo

(* C32: every weapon's magazine stays within 0..magSize and its reserve at
   or above 0; a step other than the reset of a new match never raises a
   weapon's magazine plus reserve: the total drops by 1 for each projectile
   the weapon creates and a reload's completion leaves it as it is; and no
   projectile is created by a weapon that is reloading. *)
C32_AmmoBoundsAndConservation ==
    [][LET fired == Len(pProjectiles') - Len(pProjectiles)
       IN  /\ \A w \in WeaponIndices :
                 /\ weapons'[w].currentMag \in 0..WeaponMagSize(w)
                 /\ weapons'[w].reserveAmmo >= 0
                 /\ lastOp' # "startGame" =>
                       TotalAmmo(weapons'[w]) =
                          TotalAmmo(weapons[w])
                             - (IF w = currentWeaponIndex THEN fired ELSE 0)
           /\ lastOp' # "startGame" =>
                 /\ fired \in {0, 1}
                 /\ fired = 1 => ~weapons[currentWeaponIndex].isReloading]_vars

(* Two rounds of the rifle were fired and a reload has refilled its
   magazine from the reserve. *)
C32_Witness ==
    /\ lastOp = "reloadTimeout"
    /\ weapons[RifleIndex].currentMag = WeaponMagSize(RifleIndex)
    /\ weapons[RifleIndex].reserveAmmo = 3 * WeaponMagSize(RifleIndex) - 2
    /\ ~weapons[RifleIndex].isReloading
    /\ Len(pProjectiles) = 2

(* C33: in a match playersAlive is 1 plus the number of alive agents; a
   match starts with playersAlive at the population and no elimination by
   the player, and every later step lowers playersAlive by the eliminations
   by the player it counts plus the attrition eliminations it announces, so
   that the two together make up the population less playersAlive. *)
C33_PopulationAccounting ==
    [][/\ (gameActive' /\ Len(opponents') > 0) =>
             playersAlive' = 1 + Cardinality(AliveIn(opponents'))
       /\ IF pc = "idle"
          THEN IF lastOp' = "startGame"
               THEN playersAlive' = Population /\ playerEliminations' = 0
               ELSE UNCHANGED <<playersAlive, playerEliminations>>
          ELSE playersAlive - playersAlive' =
                 (playerEliminations' - playerEliminations)
                   + (Occurrences(events', "AgentEliminatedAgent")
                        - Occurrences(events, "AgentEliminatedAgent"))]_vars

(* A frame in which one agent fell to another agent and then one to the
   player's projectile. *)
C33_Witness ==
    /\ pc = "hitPlayer"
    /\ events = <<"AgentEliminatedAgent", "PlayerEliminatedAgent", "PlayerWon">>
    /\ playerEliminations = 1
    /\ playersAlive = Population - 2
    /\ Cardinality(AliveAgents) = NumAgents - 2

(* C34: once a match is over, by the player's win or the player's
   elimination, no step before the next start of a match damages the player
   or an agent, eliminates anyone or emits a further event, the rest of the
   frame that ended the match included. *)
C34_NothingAfterTerminalOutcome ==
    [][(gameOver /\ ~(pc = "idle" /\ lastOp' = "startGame")) =>
         /\ pHealth' = pHealth
         /\ pAlive' = pAlive
         /\ \A a \in DOMAIN opponents :
               /\ opponents'[a].health = opponents[a].health
               /\ opponents'[a].isAlive = opponents[a].isAlive
         /\ UNCHANGED <<playersAlive, playerEliminations, wonCount>>
         /\ pc # "idle" => events' = events]_vars

(* C35: shotsHit never exceeds shotsFired, and shotsFired is the number of
   projectiles the player's weapons created since the last start of a
   match, i.e. the rounds they used since their reset. *)
C35_AccuracyCountersConsistent ==
    /\ shotsHit <= shotsFired
    /\ shotsFired = RoundsUsed

(* C36: when the desired Y displacement is negative, the Y displacement
   that checkCollision returns is never positive. *)
C36_FallingNeverMovesUp ==
    (probe.op = "checkCollision" /\ probe.movement.y < 0)
        => probe.result.movement.y <= 0

(* Every component of the displacement is smaller than every extent of every
   obstacle. *)
SmallStep(obs, movement) ==
    \A k \in DOMAIN obs :
       \A c \in {Abs(movement.x), Abs(movement.y), Abs(movement.z)} :
          c < obs[k].width /\ c < obs[k].height /\ c < obs[k].depth

(* C37: from a valid position, a step whose desired displacement is small in
   every component ends, with the displacement checkCollision returns, at a
   valid position. *)
C37_NoPenetrationForSmallSteps ==
    (/\ probe.op = "checkCollision"
     /\ IsPositionValid(probe.obstacles, probe.position, probe.radius)
     /\ SmallStep(probe.obstacles, probe.movement))
        => IsPositionValid(probe.obstacles,
                           Vec(probe.position.x + probe.result.movement.x,
                               probe.position.y + probe.result.movement.y,
                               probe.position.z + probe.result.movement.z),
                           probe.radius)

(* C38: after every movement step, of an agent or of the player, the
   entity's feet are at or above the ground, position.y - height/2 >= 0,
   and a step that reports the Y axis blocked ends with vertical velocity
   0. *)
C38_NeverBelowGround ==
    probe.op \in {"updateMovement", "playerUpdateMovement"} =>
        /\ 2 * probe.result.position.y - probe.height >= 0
        /\ probe.result.collision.blocked.y => probe.result.velocity.y = 0

(* A falling player whose desired displacement ends below the ground, in a
   world with an obstacle, stopped on the ground. *)
C38_Witness ==
    /\ probe.op = "playerUpdateMovement"
    /\ Len(probe.obstacles) > 0
    /\ probe.velocity.y < 0
    /\ 2 * (probe.position.y + probe.result.movement.y) - probe.height < 0
    /\ probe.result.collision.blocked.y
    /\ probe.result.collision.onGround
    /\ 2 * probe.result.position.y = probe.height
    /\ probe.result.velocity.y = 0


(* The player over successive frames.  `new Player()` stands the player at
   the spawn position with canJump true; each frame's step starts from what
   the last one left.  supported tells whether the last step reported
   onGround. *)
InitJump ==
    /\ InitGame
    /\ probe \in {[op |-> "newPlayer", obstacles |-> obs,
                   position |-> PlayerSpawn, velocity |-> Vec(0, 0, 0),
                   moveDirection |-> Vec(0, 0, 0), jump |-> FALSE,
                   canJump |-> TRUE, radius |-> DefaultRadius,
                   supported |-> TRUE] : obs \in ObstacleLists}

(* A frame of the player: Player.updateMovement with frame time 1, inside
   the modelled part of the map. *)
PlayerFrame ==
    /\ \E moveDirection \in MoveDirections, jump \in BOOLEAN :
         \E r \in {PlayerUpdateMovement(probe.obstacles, probe.position,
                                        probe.velocity, moveDirection, jump,
                                        probe.canJump, 1, probe.radius,
                                        ColliderHeight)} :
             /\ r.position.x \in Coords
             /\ r.position.z \in Coords
             /\ r.position.y <= MaxCoord + JumpForce
             /\ probe' = [op |-> "playerFrame",
                          obstacles |-> probe.obstacles,
                          position |-> r.position, velocity |-> r.velocity,
                          moveDirection |-> moveDirection, jump |-> jump,
                          canJump |-> r.canJump, radius |-> probe.radius,
                          supported |-> r.collision.onGround]
    /\ UNCHANGED <<gameVars, playerVars, weaponVars, ctlVars, aiVars, frameVars,
                   lastOp, events, wonCount, worldHits, expired, visited>>

(* Player.reset, the part that concerns movement: position and velocity;
   canJump is left as it is. *)
PlayerResetMovement ==
    /\ probe.op = "playerFrame"
    /\ probe' = [probe EXCEPT !.op = "reset", !.position = PlayerSpawn,
                              !.velocity = Vec(0, 0, 0),
                              !.moveDirection = Vec(0, 0, 0),
                              !.jump = FALSE,
                              !.supported = TRUE]
    /\ UNCHANGED <<gameVars, playerVars, weaponVars, ctlVars, aiVars, frameVars,
                   lastOp, events, wonCount, worldHits, expired, visited>>

NextJump ==
    \/ PlayerFrame
    \/ PlayerResetMovement

SpecJump == InitJump /\ [][NextJump]_vars

(* C39: between leaving a supporting surface, by a jump or by walking off an
   edge, and the next step that reports onGround, a jump request does not
   change the player's vertical velocity: a frame that starts unsupported
   ends with the vertical velocity it would have without the request. *)
C39_NoJumpWhileAirborne ==
    [][(probe'.op = "playerFrame" /\ ~probe.supported /\ probe'.jump) =>
           probe'.velocity.y =
               PlayerUpdateMovement(probe.obstacles, probe.position,
                                    probe.velocity, probe'.moveDirection,
                                    FALSE, probe.canJump, 1, probe.radius,
                                    ColliderHeight).velocity.y]_vars

====
